---- MODULE Spec2Model ----
(***************************************************************************)
(* State-machine model of the SmoothScroller plugin of OpenScroll          *)
(* (src/src/plugins/openscroll.smoothscroller.js): the per-frame update    *)
(* loop (updateScroll), the continuous smoother, the animation queue       *)
(* (scrollTo / startAnimation / animate) and the host capabilities they    *)
(* use (requestAnimationFrame, window.scrollY, scroll events, the clock).  *)
(*                                                                         *)
(* Units.  Positions are integers counting hundredths of a pixel; a        *)
(* product that JavaScript computes in floating point is computed exactly  *)
(* and rounded toward zero to that grid (the grid is fine enough that, for *)
(* the smoothness values used, a step taken at a distance of minMovement   *)
(* or more never rounds to zero).  Time is counted in ticks of half a      *)
(* nominal frame (16.67 ms = FrameTicks ticks).  smoothness is kept in     *)
(* percent (0.94 = 94).  The clock itself is not stored: lastTime and an   *)
(* animation's startTime are kept as the ages performance.now() - lastTime *)
(* (sinceLast) and performance.now() - startTime (sinceStart), which is    *)
(* all the code ever reads of them.                                        *)
(***************************************************************************)
EXTENDS Integers, Sequences, FiniteSets, TLC

\* ---------------------------------------------------------------- bounds
MaxAnims == 4            \* animations accepted by scrollTo in one run
ClockCap == 8            \* ages saturate here (>= every threshold compared)
MaxScrollY == 2000       \* scrollable extent of the page (20 px)
MaxItems == 2            \* elements matching the Parallax selector
MaxInstances == 5        \* instances created on the page, the two the
                         \* page builds itself included

\* ------------------------------------------------------ program constants
FrameTicks == 2                   \* 16.67 ms, the nominal frame
DefaultSmoothness == 94           \* options.smoothness ?? 0.94
SmoothnessMin == 50               \* _clamp(..., 0.5, 0.99)
SmoothnessMax == 99
DefaultMinMovement == 50          \* options.minMovement ?? 0.5
DefaultMaxDeltaTime == 2          \* options.maxDeltaTime ?? 2
UpdateFrequency == 2              \* Parallax options.updateFrequency
DefaultSpeed == 50                \* Parallax options.speed: 0.5
DefaultMaxTransform == 50000      \* Parallax options.maxTransform: 500 px
SpeedMin == -200                  \* Math.max(-2, Math.min(2, speed))
SpeedMax == 200
Epsilon == 10                     \* deltaX > 0.1 || deltaY > 0.1
DefaultScrollToDuration == 8      \* options.scrollToDuration (in ticks)

Undefined == -1000                \* an option that was not passed
NaN == -999999                    \* the IEEE not-a-number
NotStarted == -1                  \* startTime: null

\* --------------------------------------------------------------- helpers
Abs(x) == IF x < 0 THEN -x ELSE x
Min(a, b) == IF a < b THEN a ELSE b
Max(a, b) == IF a > b THEN a ELSE b
\* n / d rounded toward zero (d > 0)
TruncDiv(n, d) == IF n >= 0 THEN n \div d ELSE -((-n) \div d)
Sign(x) == IF x > 0 THEN 1 ELSE IF x < 0 THEN -1 ELSE 0
\* a ?? b
Coalesce(a, b) == IF a = Undefined THEN b ELSE a

\* _clamp(value, min, max)
Clamp(value, lo, hi) == Min(Max(value, lo), hi)

\* the position the browser actually takes for window.scrollTo(0, y)
ClampToPage(y) == Clamp(y, 0, MaxScrollY)

\* ------------------------------------------------------------------ state
VARIABLES
    currentScroll,      \* this.currentScroll
    targetScroll,       \* this.targetScroll
    sinceLast,          \* performance.now() - this.lastTime
    isRunning,          \* this.isRunning
    animationFrameId,   \* this.animationFrameId: "null", "live" (names a
                        \* pending callback) or "stale" (names a fired one)
    animations,         \* this.animations, the backlog
    isAnimating,        \* this.isAnimating
    currentAnimation,   \* this.currentAnimation (NoAnimation for null)
    config,             \* this.config
    easings,            \* this.easings: name -> function
    scrollY,            \* window.scrollY
    scrollEvent,        \* a scroll event is waiting to be dispatched
    rafPending,         \* number of callbacks requestAnimationFrame holds
    nextId,             \* identity of the next animation object created
    dom,                \* the wrapper element, the listeners and the
                        \* ResizeObserver the instance holds
    prefersReducedMotion,  \* this.prefersReducedMotion
    nativeTimeouts,     \* the timeouts _nativeScrollTo has pending: the
                        \* options.onComplete each will call
    parallax,           \* the Parallax instance
    openScroll,         \* the OpenScroll object of the page
    events,             \* history: what happened to each animation, in order
    step                \* history: what the last operation did

vars == <<currentScroll, targetScroll, sinceLast, isRunning, animationFrameId,
          animations, isAnimating, currentAnimation, config, easings,
          scrollY, scrollEvent, rafPending, nextId, dom,
          prefersReducedMotion, nativeTimeouts, parallax, openScroll,
          events, step>>

\* currentAnimation = null
NoAnimation == [id |-> 0, targetPosition |-> 0, startPosition |-> 0,
                sinceStart |-> NotStarted, duration |-> 0, easing |-> "",
                onComplete |-> "none"]

\* no target passed
NoTarget == [type |-> "none", top |-> 0, matches |-> FALSE]

\* what an operation did, recorded by the branch of the code that did it
NoStep == [deltaTicks |-> 0,      \* deltaTime of a smoothing step, in ticks
           animated |-> 0,        \* id of the animation animate() ticked
           reachedOne |-> FALSE,  \* ... and its progress was 1
           smoothed |-> FALSE,    \* the smoothing branch ran
           snapped |-> FALSE,     \* ... and took the snap assignment
           completed |-> NoAnimation,  \* the animation that completed
           cbIdle |-> FALSE,      \* onComplete ran and saw the channel IDLE
           cbBacklog |-> 0,       \* backlog length onComplete saw
           emitted |-> <<>>,      \* user callbacks invoked, in order
           pushed |-> Undefined,  \* last argument of window.scrollTo
           accepted |-> 0,        \* id of the animation scrollTo created
           overrode |-> FALSE,    \* scrollTo took the immediate branch
           resumed |-> FALSE,     \* start() set a stopped instance running
           destroyed |-> FALSE,   \* destroy() was called
           threw |-> FALSE,       \* the operation ended by an exception
           api |-> "none",        \* the scroll method the page called
           target |-> NoTarget,   \* ... and the target it passed
           resolved |-> "none",   \* how a promise was settled: "true",
                                  \* "false" or "rejected"
           addEasing |-> [name |-> "", fn |-> ""],
                                  \* the arguments of an addEasing call
           elapsed |-> 0,         \* currentTime - this.lastTime of a
                                  \* smoothing step, in ticks
           evaluated |-> [name |-> "", t |-> 0,
                          value |-> [sign |-> 1, hi |-> 0, lo |-> 0]]]
                                  \* a built-in easing the page called, its
                                  \* argument and the double it returned

\* what an operation on the Parallax instance did
NoPass == [errors |-> 0,          \* parallax:error events dispatched
           processed |-> {},      \* items the pass dealt with
           faulted |-> {},        \* items whose processing failed
           animated |-> FALSE,    \* the operation ran a frame
           fired |-> "none",      \* the timer whose callback ran
           destroyed |-> FALSE,   \* destroy() was called
           threw |-> FALSE,       \* the operation ended by an exception
           written |-> {},        \* elements whose style.transform a
                                  \* frame assigned
           api |-> "none",        \* the public method the page called
           element |-> 0,         \* ... the element it passed
           returned |-> "none"]   \* ... and what it returned

\* what the last call on the OpenScroll object did
NoCall == [op |-> "none",         \* the method the page called
           name |-> "",           \* ... the name it passed
           instance |-> 0,        \* the instance it returned (0: none)
           result |-> "none",     \* the boolean it returned
           threw |-> FALSE]       \* it ended by an exception

\* the instance as one record, so that a handler can call another
Self == [currentScroll |-> currentScroll, targetScroll |-> targetScroll,
         sinceLast |-> sinceLast, isRunning |-> isRunning,
         animationFrameId |-> animationFrameId, animations |-> animations,
         isAnimating |-> isAnimating, currentAnimation |-> currentAnimation,
         config |-> config, easings |-> easings, scrollY |-> scrollY,
         scrollEvent |-> scrollEvent, rafPending |-> rafPending,
         nextId |-> nextId, dom |-> dom,
         prefersReducedMotion |-> prefersReducedMotion,
         nativeTimeouts |-> nativeTimeouts, events |-> events, step |-> step]

CommitInstance(s) ==
    /\ currentScroll' = s.currentScroll
    /\ targetScroll' = s.targetScroll
    /\ sinceLast' = s.sinceLast
    /\ isRunning' = s.isRunning
    /\ animationFrameId' = s.animationFrameId
    /\ animations' = s.animations
    /\ isAnimating' = s.isAnimating
    /\ currentAnimation' = s.currentAnimation
    /\ config' = s.config
    /\ easings' = s.easings
    /\ scrollY' = s.scrollY
    /\ scrollEvent' = s.scrollEvent
    /\ rafPending' = s.rafPending
    /\ nextId' = s.nextId
    /\ dom' = s.dom
    /\ prefersReducedMotion' = s.prefersReducedMotion
    /\ nativeTimeouts' = s.nativeTimeouts
    /\ parallax' = [parallax EXCEPT !.pass = NoPass]
    /\ events' = s.events
    /\ step' = s.step

\* ... and the OpenScroll object was not called
Commit(s) ==
    /\ CommitInstance(s)
    /\ openScroll' = [openScroll EXCEPT !.call = NoCall]

\* --------------------------------------------------------- host services
\* window.scrollTo(0, y): the page takes the clamped position and, if it
\* moved, a scroll event is queued
WindowScrollTo(s, y) ==
    [s EXCEPT !.scrollY = ClampToPage(y),
              !.scrollEvent = s.scrollEvent \/ ClampToPage(y) # s.scrollY,
              !.step.pushed = y]

\* requestAnimationFrame(this.updateScroll), result stored in animationFrameId
RequestFrame(s) ==
    [s EXCEPT !.rafPending = s.rafPending + 1, !.animationFrameId = "live"]

\* cancelAnimationFrame(this.animationFrameId)
CancelFrame(s) ==
    IF s.animationFrameId = "live"
    THEN [s EXCEPT !.rafPending = s.rafPending - 1]
    ELSE s

\* ---------------------------------------------------------------- easing
NaNProgress == [num |-> 0, den |-> 0]
One == [num |-> 1, den |-> 1]

\* Math.min(elapsed / animation.duration, 1) as a fraction num/den, den > 0
Progress(elapsed, duration) ==
    IF duration = 0
    THEN (IF elapsed = 0 THEN NaNProgress ELSE One)   \* 0/0 ; x/0 = Infinity
    ELSE IF duration > 0
    THEN (IF elapsed >= duration THEN One
          ELSE [num |-> elapsed, den |-> duration])
    ELSE [num |-> -elapsed, den |-> -duration]        \* <= 0, below the min

\* progress < 1 (false for NaN)
ProgressLt1(p) == p.den # 0 /\ p.num < p.den

\* (targetPosition - startPosition) * easingFunction(progress)
Eased(fn, p, diff) ==
    IF p.den = 0 THEN NaN
    ELSE CASE fn = "linear" -> TruncDiv(diff * p.num, p.den)
           [] fn = "easeInOutCubic" ->
                IF 2 * p.num < p.den
                THEN TruncDiv(4 * diff * p.num * p.num * p.num,
                              p.den * p.den * p.den)
                ELSE diff + TruncDiv(4 * diff * (p.num - p.den)
                                       * (p.num - p.den) * (p.num - p.den),
                                     p.den * p.den * p.den)
           [] fn = "double" -> TruncDiv(2 * diff * p.num, p.den)
           [] OTHER -> NaN

\* names every object literal inherits from Object.prototype
ObjectPrototype == {"toString"}

\* ------------------------------------------- the built-in easing table
\* IEEE 754 doubles below 4 that are multiples of 2^-52, as sign and
\* magnitude; the magnitude counts units of 2^-52 in two digits of 26 bits
Radix == 67108864

\* the double of a small integer
Double(n) == [sign |-> IF n < 0 THEN -1 ELSE 1, hi |-> Abs(n) * Radix,
              lo |-> 0]

\* const c1 = 1.70158: the nearest double, 0x1.b39abf3387161p+0
C1 == [sign |-> 1, hi |-> Radix + 47082236, lo |-> 54030689]

MagnitudeGeq(a, b) == a.hi > b.hi \/ (a.hi = b.hi /\ a.lo >= b.lo)

\* a + b as a real number
ExactSum(a, b) ==
    LET plus == [hi |-> a.hi + b.hi + ((a.lo + b.lo) \div Radix),
                 lo |-> (a.lo + b.lo) % Radix]
        minus(c, d) == IF c.lo >= d.lo
                       THEN [hi |-> c.hi - d.hi, lo |-> c.lo - d.lo]
                       ELSE [hi |-> c.hi - d.hi - 1,
                             lo |-> c.lo + Radix - d.lo]
        r == IF a.sign = b.sign
             THEN [sign |-> a.sign, hi |-> plus.hi, lo |-> plus.lo]
             ELSE IF MagnitudeGeq(a, b)
             THEN [sign |-> a.sign, hi |-> minus(a, b).hi,
                   lo |-> minus(a, b).lo]
             ELSE [sign |-> b.sign, hi |-> minus(b, a).hi,
                   lo |-> minus(b, a).lo]
    IN IF r.hi = 0 /\ r.lo = 0 THEN Double(0) ELSE r

\* round to nearest, ties to even: below 2 every multiple of 2^-52 is a
\* double; in [2, 4) the doubles are the multiples of 2^-51, and the value
\* half-way between two of them goes to the one with the even fraction
RoundToDouble_exact(r) == r

RoundToDouble(r) ==
    IF r.hi < 2 * Radix \/ r.lo % 2 = 0 THEN r
    ELSE IF r.lo % 4 = 1 THEN [r EXCEPT !.lo = @ - 1]
    ELSE IF r.lo + 1 = Radix THEN [r EXCEPT !.hi = @ + 1, !.lo = 0]
    ELSE [r EXCEPT !.lo = @ + 1]

\* a + b in double arithmetic
DoubleAdd(a, b) == RoundToDouble(ExactSum(a, b))

\* a * k for k in {-1, 0, 1}
DoubleTimes(a, k) ==
    IF k = 0 THEN Double(0) ELSE [a EXCEPT !.sign = @ * k]

\* easeOutBack: 1 + c3 * Math.pow(t - 1, 3) + c1 * Math.pow(t - 1, 2) at
\* an end of [0, 1], where both powers are -1, 0 or 1
easeOutBack(t) ==
    LET c3 == DoubleAdd(C1, Double(1))
        u == t - 1
    IN DoubleAdd(DoubleAdd(Double(1), DoubleTimes(c3, u * u * u)),
                 DoubleTimes(C1, u * u))

\* the polynomial entries and easeOutElastic at an integer t: every
\* intermediate value is a small integer, which doubles hold exactly
IntegerEasing(name, t) ==
    LET u == t - 1
    IN CASE name = "linear" -> t
         [] name = "easeInQuad" -> t * t
         [] name = "easeOutQuad" -> t * (2 - t)
         [] name = "easeInOutQuad" ->
                IF 2 * t < 1 THEN 2 * t * t ELSE -1 + (4 - 2 * t) * t
         [] name = "easeInCubic" -> t * t * t
         [] name = "easeOutCubic" -> u * u * u + 1
         [] name = "easeInOutCubic" ->
                IF 2 * t < 1 THEN 4 * t * t * t
                ELSE (t - 1) * (2 * t - 2) * (2 * t - 2) + 1
         [] name = "easeInQuart" -> t * t * t * t
         [] name = "easeOutQuart" -> 1 - u * u * u * u
         [] name = "easeInOutQuart" ->
                IF 2 * t < 1 THEN 8 * t * t * t * t
                ELSE 1 - 8 * u * u * u * u
         [] name = "easeInQuint" -> t * t * t * t * t
         [] name = "easeOutQuint" -> 1 + u * u * u * u * u
         [] name = "easeInOutQuint" ->
                IF 2 * t < 1 THEN 16 * t * t * t * t * t
                ELSE 1 + 16 * u * u * u * u * u
         [] name = "easeOutElastic" /\ t = 0 -> 0
         [] name = "easeOutElastic" /\ t = 1 -> 1

\* the names of the table the constructor builds
BuiltinNames ==
    {"linear", "easeInQuad", "easeOutQuad", "easeInOutQuad", "easeInCubic",
     "easeOutCubic", "easeInOutCubic", "easeInQuart", "easeOutQuart",
     "easeInOutQuart", "easeInQuint", "easeOutQuint", "easeInOutQuint",
     "easeOutBack", "easeOutElastic"}

\* this.easings[name](t) for an entry of that table, at t = 0 or t = 1
Builtin(name, t) ==
    IF name = "easeOutBack" THEN easeOutBack(t)
    ELSE Double(IntegerEasing(name, t))

\* this.easings[animation.easing] || this.easings.easeInOutCubic: the
\* lookup on the object literal also finds inherited properties, and the
\* function found there returns a string, whose product is NaN
ResolveEasing_ownKeys(s, name) ==
    IF name \in DOMAIN s.easings THEN s.easings[name]
    ELSE s.easings["easeInOutCubic"]

ResolveEasing(s, name) ==
    IF name \in DOMAIN s.easings THEN s.easings[name]
    ELSE IF name \in ObjectPrototype THEN "Object.prototype"
    ELSE s.easings["easeInOutCubic"]

\* ------------------------------------------------------- animation queue
\* a start that keeps the position scrollTo captured
startAnimation_keepCaptured(s, animation) ==
    [s EXCEPT !.currentAnimation = [animation EXCEPT !.sinceStart = 0],
              !.isAnimating = TRUE,
              !.events = Append(@, <<"start", animation.id>>)]

\* startAnimation(animation)
startAnimation(s, animation) ==
    [s EXCEPT !.currentAnimation =
                  [animation EXCEPT !.sinceStart = 0,
                                    !.startPosition = s.scrollY],
              !.isAnimating = TRUE,
              !.events = Append(@, <<"start", animation.id>>)]

\* the history entries of the animations an immediate override throws away
Discarded(s) ==
    LET all == <<s.currentAnimation>> \o s.animations
    IN [i \in 1..Len(all) |-> <<"discard", all[i].id>>]

\* a queue that puts the newest animation first
enqueue_unshift(s, animation) ==
    [s EXCEPT !.animations = <<animation>> \o @]

\* this.animations.push(animation)
enqueue(s, animation) ==
    [s EXCEPT !.animations = Append(@, animation)]

\* an override that forgets to empty the backlog
clearAnimations_keepBacklog(s) ==
    [s EXCEPT !.isAnimating = FALSE,
              !.currentAnimation = NoAnimation]

\* the immediate branch of scrollTo before it starts the new animation:
\* "Clear current animations"
clearAnimations(s) ==
    [s EXCEPT !.animations = <<>>,
              !.isAnimating = FALSE,
              !.currentAnimation = NoAnimation]

\* scrollTo(target, options) with a numeric target, past target resolution:
\* the body of the promise executor from "Create animation object" on
scrollTo(s, target, options) ==
    LET animation == [id |-> s.nextId,
                      targetPosition |-> target,
                      startPosition |-> s.scrollY,
                      sinceStart |-> NotStarted,
                      duration |-> Coalesce(options.duration,
                                            s.config.scrollToDuration),
                      easing |-> IF options.easing = "undefined"
                                 THEN s.config.scrollToEasing
                                 ELSE options.easing,
                      onComplete |-> options.onComplete]
        s1 == [s EXCEPT !.nextId = s.nextId + 1,
                        !.step.accepted = animation.id]
    IN IF s1.isAnimating
       THEN IF options.immediate
            THEN startAnimation(
                     clearAnimations(
                         [s1 EXCEPT !.events = @ \o Discarded(s1),
                                    !.step.overrode = TRUE]),
                     animation)
            ELSE enqueue(s1, animation)
       ELSE startAnimation(s1, animation)

\* stop()
stop(s) ==
    LET s1 == [s EXCEPT !.isRunning = FALSE]
    IN IF s1.animationFrameId # "null"
       THEN [CancelFrame(s1) EXCEPT !.animationFrameId = "null"]
       ELSE s1

\* _shouldUseSmooth(), on a device that is not a touch device
_shouldUseSmooth(s) ==
    ~(s.prefersReducedMotion /\ s.config.respectReducedMotion)

\* start()
start(s) ==
    IF s.isRunning \/ ~_shouldUseSmooth(s) THEN s
    ELSE LET s1 == [s EXCEPT !.isRunning = TRUE,
                             !.step.resumed = TRUE,
                             !.sinceLast = 0,
                             !.currentScroll = s.scrollY,
                             !.targetScroll = s.scrollY]
         IN IF s1.animationFrameId = "null" THEN RequestFrame(s1) ELSE s1

\* what the caller's options.onComplete does when it is invoked: nothing,
\* scrollTo(0), scrollTo(0, {immediate: true}) or stop()
ReentryOptions(immediate) ==
    [duration |-> Undefined, easing |-> "undefined", immediate |-> immediate,
     onComplete |-> "none"]

UserCallback(s, kind) ==
    CASE kind = "scrollTo" ->
             LET r == scrollTo(s, 0, ReentryOptions(FALSE))
             IN [r EXCEPT !.events = Append(@, <<"reenter", r.step.accepted>>)]
      [] kind = "scrollToImmediate" ->
             LET r == scrollTo(s, 0, ReentryOptions(TRUE))
             IN [r EXCEPT !.events = Append(@, <<"reenter", r.step.accepted>>)]
      [] kind = "stop" -> stop(s)
      [] OTHER -> s

\* animation.onComplete(): the wrapper scrollTo builds around
\* options.onComplete (and the promise's resolve)
onComplete(s, animation) ==
    UserCallback(
        [s EXCEPT !.events = Append(@, <<"complete", animation.id>>),
                  !.step.completed = animation,
                  !.step.cbIdle = ~s.isAnimating /\ s.currentAnimation.id = 0,
                  !.step.cbBacklog = Len(s.animations),
                  !.step.emitted = Append(@, "onComplete"),
                  !.step.resolved = "true"],
        animation.onComplete)

\* a completion that leaves the finished animation current
finish_keepCurrent(s, animation) ==
    [WindowScrollTo(s, animation.targetPosition) EXCEPT
        !.currentScroll = animation.targetPosition,
        !.targetScroll = animation.targetPosition]

\* a completion that leaves the eased value in currentScroll
finish_keepEased(s, animation) ==
    [WindowScrollTo(s, animation.targetPosition) EXCEPT
        !.targetScroll = animation.targetPosition,
        !.isAnimating = FALSE,
        !.currentAnimation = NoAnimation]

\* a completion that clears the current animation but not the flag
finish_keepAnimating(s, animation) ==
    [WindowScrollTo(s, animation.targetPosition) EXCEPT
        !.currentScroll = animation.targetPosition,
        !.targetScroll = animation.targetPosition,
        !.currentAnimation = NoAnimation]

\* a completion that leaves the smoothing target where it was
finish_keepTarget(s, animation) ==
    [WindowScrollTo(s, animation.targetPosition) EXCEPT
        !.currentScroll = animation.targetPosition,
        !.isAnimating = FALSE,
        !.currentAnimation = NoAnimation]

\* the "Animation complete" assignments of animate(), before the callback
finish(s, animation) ==
    [WindowScrollTo(s, animation.targetPosition) EXCEPT
        !.currentScroll = animation.targetPosition,
        !.targetScroll = animation.targetPosition,
        !.isAnimating = FALSE,
        !.currentAnimation = NoAnimation]

\* "Process next animation in queue if any"
processNext(s) ==
    IF Len(s.animations) > 0
    THEN startAnimation([s EXCEPT !.animations = Tail(@)], Head(s.animations))
    ELSE s

\* a tick that takes the eased distance for the position
animate_fromTop(s) ==
    LET animation == s.currentAnimation
        progress == Progress(animation.sinceStart, animation.duration)
        easedDistance == Eased(ResolveEasing(s, animation.easing), progress,
                               animation.targetPosition
                                   - animation.startPosition)
        s1 == [s EXCEPT !.currentScroll = easedDistance,
                        !.step.animated = animation.id,
                        !.step.reachedOne = (progress = One)]
    IN IF animation.id = 0 THEN s
       ELSE IF ProgressLt1(progress)
       THEN WindowScrollTo(s1, s1.currentScroll)
       ELSE processNext(onComplete(finish(s1, animation), animation))

\* animate()
animate(s) ==
    LET animation == s.currentAnimation
        elapsed == animation.sinceStart
        progress == Progress(elapsed, animation.duration)
        easingFunction == ResolveEasing(s, animation.easing)
        easedDistance == Eased(easingFunction, progress,
                               animation.targetPosition
                                   - animation.startPosition)
        s1 == [s EXCEPT !.currentScroll =
                            IF easedDistance = NaN THEN NaN
                            ELSE animation.startPosition + easedDistance,
                        !.step.animated = animation.id,
                        !.step.reachedOne = (progress = One)]
    IN IF animation.id = 0 THEN s
       ELSE IF ProgressLt1(progress)
       THEN WindowScrollTo(s1, s1.currentScroll)
       ELSE processNext(onComplete(finish(s1, animation), animation))

\* ------------------------------------------------------------ frame loop
\* the else branch of updateScroll: normal smooth scrolling
\* a smoother without the snap branch
smooth_noSnap(s, deltaTicks) ==
    LET distance == s.targetScroll - s.currentScroll
    IN [s EXCEPT !.currentScroll =
                     @ + TruncDiv(distance * (100 - s.config.smoothness)
                                      * deltaTicks,
                                  100 * FrameTicks),
                 !.step.smoothed = TRUE,
                 !.step.deltaTicks = deltaTicks]

\* a smoother that moves by the same share whatever time has passed
smooth_perFrame(s, deltaTicks) ==
    LET distance == s.targetScroll - s.currentScroll
    IN IF Abs(distance) < s.config.minMovement
       THEN [s EXCEPT !.currentScroll = s.targetScroll,
                      !.step.smoothed = TRUE,
                      !.step.snapped = TRUE]
       ELSE [s EXCEPT !.currentScroll =
                          @ + TruncDiv(distance * (100 - s.config.smoothness),
                                       100),
                      !.step.smoothed = TRUE,
                      !.step.deltaTicks = deltaTicks]

smooth(s, deltaTicks) ==
    LET distance == s.targetScroll - s.currentScroll
        absDistance == Abs(distance)
    IN IF absDistance < s.config.minMovement
       THEN [s EXCEPT !.currentScroll = s.targetScroll,
                      !.step.smoothed = TRUE,
                      !.step.snapped = TRUE]
       ELSE [s EXCEPT !.currentScroll =
                          @ + TruncDiv(distance * (100 - s.config.smoothness)
                                           * deltaTicks,
                                       100 * FrameTicks),
                      !.step.smoothed = TRUE,
                      !.step.deltaTicks = deltaTicks]

\* a frame delta without the maxDeltaTime cap
deltaTime_uncapped(s) ==
    s.sinceLast

\* deltaTime = Math.min((currentTime - this.lastTime) / 16.67,
\*                      this.config.maxDeltaTime), in ticks
deltaTime(s) ==
    Min(s.sinceLast, s.config.maxDeltaTime * FrameTicks)

\* a frame that lets the smoother run after the animation tick as well
updateScroll_both(s) ==
    IF ~s.isRunning THEN s
    ELSE LET deltaTicks == deltaTime(s)
             s1 == [s EXCEPT !.sinceLast = 0]
             s2 == IF s1.isAnimating /\ s1.currentAnimation.id # 0
                   THEN animate(s1)
                   ELSE s1
         IN RequestFrame(smooth(s2, deltaTicks))

\* updateScroll()
updateScroll(s) ==
    IF ~s.isRunning THEN s
    ELSE LET deltaTicks == deltaTime(s)
             s1 == [s EXCEPT !.sinceLast = 0]
             s2 == IF s1.isAnimating /\ s1.currentAnimation.id # 0
                   THEN animate(s1)
                   ELSE smooth([s1 EXCEPT !.step.elapsed = s.sinceLast],
                               deltaTicks)
         IN RequestFrame(s2)

\* handleVisibilityChange(), with document.visibilityState
handleVisibilityChange(s, visibilityState) ==
    IF visibilityState = "visible" THEN start(s) ELSE stop(s)

\* handleScroll()
handleScroll(s) ==
    IF ~s.isAnimating THEN [s EXCEPT !.targetScroll = s.scrollY] ELSE s

\* init(): the scroll element exists; after the DOM and listener set-up the
\* only state it changes is through start()
\* setupScrollStructure(): the wrapper is created and inserted unless the
\* document already holds one, and the scroll element is fixed
setupScrollStructure(s) ==
    [s EXCEPT !.dom.wrapperElement = "div",
              !.dom.wrapperInDocument = TRUE,
              !.dom.styled = TRUE]

\* init(): structure, listeners, a new ResizeObserver, start()
init(s) ==
    start([setupScrollStructure(s) EXCEPT !.dom.listening = TRUE,
                                          !.dom.resizeObserver = "observing"])

\* destroy(): wrapperElement.parentNode is null once the wrapper has been
\* removed from the document, and reading insertBefore of null throws
destroy(s) ==
    LET s1 == [stop(s) EXCEPT !.step.destroyed = TRUE,
                              !.dom.listening = FALSE,
                              !.dom.resizeObserver = "null"]
    IN IF s1.dom.wrapperElement # "null"
       THEN IF s1.dom.wrapperInDocument
            THEN [s1 EXCEPT !.dom.wrapperInDocument = FALSE,
                            !.dom.styled = FALSE]
            ELSE [s1 EXCEPT !.step.threw = TRUE]
       ELSE [s1 EXCEPT !.dom.styled = FALSE]

\* Object.assign(this.config, options): the keys that options carries
Assign(cfg, options) ==
    [k \in DOMAIN cfg |-> IF k \in DOMAIN options THEN options[k] ELSE cfg[k]]

\* updateConfig(options)
updateConfig(s, options) ==
    LET s1 == [s EXCEPT !.config = Assign(s.config, options)]
    IN IF _shouldUseSmooth(s1) /\ ~s1.isRunning THEN init(s1)
       ELSE IF ~_shouldUseSmooth(s1) /\ s1.isRunning THEN destroy(s1)
       ELSE s1

\* the target position scrollTo and _nativeScrollTo work out: a number is
\* taken as it is, an element or a matching selector gives its place in
\* the page, anything else leaves targetPosition undefined
targetPosition_lenient(s, target, options) ==
    IF target.type = "number" THEN target.top ELSE s.scrollY + target.top

targetPosition(s, target, options) ==
    LET offset == IF "offset" \in DOMAIN options THEN options.offset
                  ELSE s.config.autoScrollOffset
    IN CASE target.type = "number" -> target.top
         [] target.type = "element" -> s.scrollY + target.top - offset
         [] target.type = "string" /\ target.matches ->
                s.scrollY + target.top - offset
         [] OTHER -> Undefined

\* _nativeScrollTo(target, options) under reduced motion (behavior 'auto'):
\* the page jumps and a timeout will call options.onComplete
_nativeScrollTo(s, target, options) ==
    LET position == targetPosition(s, target, options)
    IN IF position = Undefined
       THEN [s EXCEPT !.step.resolved = "false"]
       ELSE [WindowScrollTo(s, position) EXCEPT
                !.nativeTimeouts = Append(@, options.onComplete)]

\* scrollTo(target, options) from its first line: the fallback, the target
\* resolution, then the rest of the executor
scrollToTarget(s, target, options) ==
    IF ~_shouldUseSmooth(s) THEN _nativeScrollTo(s, target, options)
    ELSE LET position == targetPosition(s, target, options)
         IN IF position = Undefined
            THEN [s EXCEPT !.step.resolved = "false"]
            ELSE scrollTo(s, position, options)

\* scrollToElement(selector, options)
scrollToElement(s, selector, options) ==
    IF ~selector.matches
    THEN [s EXCEPT !.step.resolved = "rejected"]
    ELSE scrollToTarget(s, [selector EXCEPT !.type = "element"], options)

\* the timeout callback of _nativeScrollTo
nativeTimeout(s) ==
    LET kind == Head(s.nativeTimeouts)
        s1 == [s EXCEPT !.nativeTimeouts = Tail(@)]
        s2 == IF kind # "none"
              THEN UserCallback([s1 EXCEPT !.step.emitted =
                                               Append(@, "onComplete")],
                                kind)
              ELSE s1
    IN [s2 EXCEPT !.step.resolved = "true"]

\* addEasing(name, fn); fn = "notAFunction" stands for any non-function
addEasing_keepFirst(s, name, fn) ==
    IF fn = "notAFunction" \/ name \in DOMAIN s.easings THEN s
    ELSE [s EXCEPT !.easings =
              [n \in DOMAIN s.easings \cup {name} |->
                  IF n = name THEN fn ELSE s.easings[n]]]

addEasing(s, name, fn) ==
    IF fn = "notAFunction" THEN s
    ELSE [s EXCEPT !.easings =
              [n \in DOMAIN s.easings \cup {name} |->
                  IF n = name THEN fn ELSE s.easings[n]]]

\* the config object the constructor builds from options
constructorConfig(options) ==
    [smoothness |-> Clamp(Coalesce(options.smoothness, DefaultSmoothness),
                          SmoothnessMin, SmoothnessMax),
     minMovement |-> Coalesce(options.minMovement, DefaultMinMovement),
     maxDeltaTime |-> Coalesce(options.maxDeltaTime, DefaultMaxDeltaTime),
     scrollToDuration |-> Coalesce(options.scrollToDuration,
                                   DefaultScrollToDuration),
     scrollToEasing |-> "easeInOutCubic",
     debug |-> IF "debug" \in DOMAIN options THEN options.debug ELSE FALSE,
     autoScrollOffset |-> 0,
     respectReducedMotion |-> TRUE]

\* the built-in entries of this.easings that the model distinguishes
builtinEasings ==
    [n \in {"linear", "easeInOutCubic"} |-> n]

\* ----------------------------------------------------------------- inputs
NoOptions == [smoothness |-> Undefined, minMovement |-> Undefined,
              maxDeltaTime |-> Undefined, scrollToDuration |-> Undefined]

\* options passed to the constructor: a smoothness below the range (the
\* constructor clamps it to 0.5) and a larger maxDeltaTime
CtorOptions ==
    {[NoOptions EXCEPT !.smoothness = 30]}

\* constructor options of the smoother specifications: the defaults, a
\* clamped smoothness, a larger maxDeltaTime, no snap threshold
SmoothCtorOptions ==
    {NoOptions,
     [NoOptions EXCEPT !.smoothness = 30],
     [NoOptions EXCEPT !.smoothness = 30, !.maxDeltaTime = 4],
     [NoOptions EXCEPT !.minMovement = 0]}

\* options passed to updateConfig
UpdateOptions ==
    {[minMovement |-> 0], [smoothness |-> 100], [debug |-> TRUE]}

NoScrollOptions == [duration |-> Undefined, easing |-> "undefined",
                    immediate |-> FALSE, onComplete |-> "none"]

\* scrollTo calls: <<target, options>>
Requests ==
    {<<1000, NoScrollOptions>>,
     <<0, [NoScrollOptions EXCEPT !.immediate = TRUE]>>,
     <<3000, [NoScrollOptions EXCEPT !.duration = 0, !.easing = "custom"]>>,
     <<1000, [NoScrollOptions EXCEPT !.duration = -4, !.easing = "linear"]>>,
     <<0, [NoScrollOptions EXCEPT !.onComplete = "scrollTo"]>>}

\* targets passed to scrollTo: a number, an element, a selector that
\* matches, a selector that matches nothing, a value of another type
Targets ==
    {[type |-> "number", top |-> 1000, matches |-> FALSE],
     [type |-> "element", top |-> 400, matches |-> TRUE],
     [type |-> "string", top |-> 400, matches |-> TRUE],
     [type |-> "string", top |-> 0, matches |-> FALSE],
     [type |-> "other", top |-> 0, matches |-> FALSE]}

\* selectors passed to scrollToElement
Selectors == {t \in Targets : t.type = "string"}

\* the target resolves to no position
Unresolvable(target) ==
    \/ target.type = "other"
    \/ target.type = "string" /\ ~target.matches

\* options passed along with them
TargetOptions ==
    {NoScrollOptions, [NoScrollOptions EXCEPT !.immediate = TRUE]}

\* positions the user scrolls the page to
ScrollPositions == {400}

\* time between a frame and the operation before it, in ticks
Deltas == {0, 4}
SmoothDeltas == {0, 2, 8}
PositiveDeltas == SmoothDeltas \ {0}
ResumeDeltas == {0, 2}
SuspendDeltas == {8}

\* a linear animation of the default duration
ResumeRequests ==
    {<<1000, [NoScrollOptions EXCEPT !.easing = "linear"]>>}

\* scrollTo calls that name an easing: a registered one, one that is no
\* property of this.easings, one that is an inherited property
EasingRequests ==
    {<<1000, [NoScrollOptions EXCEPT !.easing = e]>> :
         e \in {"easeInOutCubic", "linear", "bogus", "toString"}}

\* animations that will still be created by callbacks of pending animations
Reentrant(kind) == kind \in {"scrollTo", "scrollToImmediate"}
Reserved ==
    Cardinality({i \in 1..Len(animations) :
                     Reentrant(animations[i].onComplete)})
    + (IF Reentrant(currentAnimation.onComplete) THEN 1 ELSE 0)

\* --------------------------------------------------------------- Parallax
\* the elements of the document that carry data-parallax
Items == 1 .. MaxItems

\* options.selector of new Parallax()
DefaultSelector == "[data-parallax]"

\* document.querySelectorAll(selector): every element carries
\* data-parallax, the first one the class hero, none the class missing
QuerySelectorAll(selector) ==
    CASE selector = DefaultSelector -> Items
      [] selector = ".hero" -> {1}
      [] OTHER -> {}

\* the timers an instance creates: this.scrollTimeout, the debounceTimers
\* entry (every debounced function uses the key 'default'), the throttle
\* window and the timeout of handleLoad
TimerKinds == {"scrollIdle", "debounce", "throttle", "load"}

\* a translation in hundredths of a pixel
ZeroTransform == [x |-> 0, y |-> 0]

\* an element without data-parallax-* attributes
NoData == [speed |-> Undefined, direction |-> "", offset |-> Undefined]

\* the map has no entry for the element
NoItem == [speed |-> 0, direction |-> "", offset |-> 0,
           initialTransform |-> ZeroTransform,
           lastTransform |-> ZeroTransform]

\* this.options of new Parallax() (speed in hundredths)
DefaultParallaxOptions ==
    [selector |-> DefaultSelector,
     speed |-> DefaultSpeed, direction |-> "vertical", offset |-> 0,
     useIntersectionObserver |-> TRUE,
     maxTransform |-> DefaultMaxTransform, containTransforms |-> TRUE]

\* createParallaxItem(element, index): data attributes before the
\* instance options, the speed clamped, the computed transform of the
\* element as its baseline
Parallax_createParallaxItem_unclamped(p, el) ==
    [speed |-> Coalesce(p.dataset[el].speed, p.options.speed),
     direction |-> IF p.dataset[el].direction # ""
                   THEN p.dataset[el].direction ELSE p.options.direction,
     offset |-> Coalesce(p.dataset[el].offset, p.options.offset),
     initialTransform |-> p.transform[el],
     lastTransform |-> ZeroTransform]

Parallax_createParallaxItem(p, el) ==
    LET speed == Coalesce(p.dataset[el].speed, p.options.speed)
        clampedSpeed == Max(SpeedMin, Min(SpeedMax, speed))
    IN [speed |-> clampedSpeed,
        direction |-> IF p.dataset[el].direction # ""
                      THEN p.dataset[el].direction ELSE p.options.direction,
        offset |-> Coalesce(p.dataset[el].offset, p.options.offset),
        initialTransform |-> p.transform[el],
        lastTransform |-> ZeroTransform]

\* calculateTransform(item) up to the switch: the scroll offsets times
\* the speed, added along the axes of the direction
Parallax_rawTransform(p, item) ==
    LET scrollDiffY == TruncDiv(p.currentScrollY * item.speed, 100)
        scrollDiffX == TruncDiv(p.currentScrollX * item.speed, 100)
        alongY == item.initialTransform.y + scrollDiffY + item.offset
        alongX == item.initialTransform.x + scrollDiffX + item.offset
    IN CASE item.direction = "vertical" ->
                [x |-> item.initialTransform.x, y |-> alongY]
         [] item.direction = "horizontal" ->
                [x |-> alongX, y |-> item.initialTransform.y]
         [] item.direction = "both" -> [x |-> alongX, y |-> alongY]
         [] OTHER -> [x |-> item.initialTransform.x,
                      y |-> item.initialTransform.y]

\* calculateTransform(item)
Parallax_calculateTransform_unclamped(p, item) ==
    Parallax_rawTransform(p, item)

Parallax_calculateTransform(p, item) ==
    LET raw == Parallax_rawTransform(p, item)
        max == p.options.maxTransform
    IN IF p.options.containTransforms
       THEN [x |-> Max(-max, Min(max, raw.x)),
             y |-> Max(-max, Min(max, raw.y))]
       ELSE raw

\* deltaX > 0.1 || deltaY > 0.1
Significant_always(transform, lastTransform) == TRUE

\* a test that asks for a change on both axes
Significant_bothAxes(transform, lastTransform) ==
    /\ Abs(transform.x - lastTransform.x) > Epsilon
    /\ Abs(transform.y - lastTransform.y) > Epsilon

Significant(transform, lastTransform) ==
    \/ Abs(transform.x - lastTransform.x) > Epsilon
    \/ Abs(transform.y - lastTransform.y) > Epsilon

\* resetElementStyles(item)
Parallax_resetElementStyles_keep(p, el) == p

Parallax_resetElementStyles(p, el) ==
    [p EXCEPT !.transform[el] = p.items[el].initialTransform]

\* handleError(message, error), n times
Parallax_handleError(p, n) ==
    [p EXCEPT !.pass.errors = @ + n]

\* updateElementRects(): every item is measured inside its own try/catch
Parallax_updateElementRects(p) ==
    LET failing == p.elements \cap p.faulty
    IN Parallax_handleError(
           [p EXCEPT !.pass.processed = @ \cup (p.elements \ failing),
                     !.pass.faulted = @ \cup failing],
           Cardinality(failing))

\* setupElements(): nothing happens if the selector matches no element;
\* otherwise the map is cleared and every matching element is registered
\* inside its own try/catch
Parallax_setupElements(p) ==
    LET nodeList == QuerySelectorAll(p.options.selector)
        failing == nodeList \cap p.faulty
    IN IF nodeList = {} THEN p
       ELSE Parallax_updateElementRects(
                Parallax_handleError(
                    [p EXCEPT !.elements = nodeList \ failing,
                              !.items =
                                  [el \in Items |->
                                      IF el \in nodeList \ failing
                                      THEN Parallax_createParallaxItem(p, el)
                                      ELSE NoItem],
                              !.pass.faulted = @ \cup failing],
                    Cardinality(failing)))

\* setupIntersectionObserver(): a new observer that observes the tracked
\* elements, unless the option is off
Parallax_setupIntersectionObserver(p) ==
    IF ~p.options.useIntersectionObserver THEN p
    ELSE [p EXCEPT !.observer = "IntersectionObserver",
                   !.observed = p.elements]

\* isElementVisible(item): the membership set the observer maintains or,
\* without an observer, the rectangle of the element, which the page
\* keeps inside the viewport
Parallax_isElementVisible(p, el) ==
    IF p.observer # "null" THEN el \in p.visibleElements ELSE TRUE

\* requestAnimationFrame(this.boundMethods.animate)
Parallax_requestFrame(p) ==
    [p EXCEPT !.rafId = "live", !.rafPending = @ + 1]

\* animate(): the transforms of the visible items are computed in the
\* order of the map, with no try/catch, and those that changed enough are
\* then written (toFixed(2) keeps hundredths as they are); an item whose
\* computation throws ends the frame before the items after it, before
\* any write and before requestAnimationFrame
Parallax_animate(p) ==
    IF ~p.isRunning THEN p
    ELSE LET p0 == [p EXCEPT !.frameCount = (@ + 1) % UpdateFrequency,
                             !.pass.animated = TRUE]
             p1 == IF p0.observer = "null" /\ ~p0.isScrolling
                          /\ p0.frameCount = 0
                   THEN Parallax_updateElementRects(p0)
                   ELSE p0
             visible == {el \in p1.elements :
                            Parallax_isElementVisible(p1, el)}
             failing == visible \cap p1.faulty
         IN IF failing = {}
            THEN LET computed(el) ==
                         Parallax_calculateTransform(p1, p1.items[el])
                     updates ==
                         {el \in visible :
                              Significant(computed(el),
                                          p1.items[el].lastTransform)}
                 IN Parallax_requestFrame(
                        [p1 EXCEPT
                            !.pass.processed = @ \cup visible,
                            !.pass.written = updates,
                            !.transform =
                                [el \in Items |->
                                    IF el \in updates THEN computed(el)
                                    ELSE @[el]],
                            !.items =
                                [el \in Items |->
                                    IF el \in updates
                                    THEN [@[el] EXCEPT
                                             !.lastTransform = computed(el)]
                                    ELSE @[el]]])
            ELSE LET first == CHOOSE i \in failing :
                                  \A j \in failing : i <= j
                 IN [p1 EXCEPT !.pass.processed =
                                   @ \cup {i \in visible : i < first},
                               !.pass.faulted = @ \cup {first},
                               !.pass.threw = TRUE]

\* start(), with window.pageYOffset
Parallax_start(p, pageYOffset) ==
    IF p.isRunning THEN p
    ELSE Parallax_animate([p EXCEPT !.isRunning = TRUE,
                                    !.currentScrollY = pageYOffset,
                                    !.currentScrollX = p.pageXOffset])

\* stop()
Parallax_stop(p) ==
    LET p1 == [p EXCEPT !.isRunning = FALSE]
    IN IF p1.rafId # "null"
       THEN [p1 EXCEPT !.rafPending = IF p1.rafId = "live" THEN @ - 1 ELSE @,
                       !.rafId = "null"]
       ELSE p1

\* destroy(): clears this.scrollTimeout and the debounceTimers entries,
\* resets the style of every tracked element
Parallax_destroy(p) ==
    [Parallax_stop(p) EXCEPT !.timers = @ \ {"scrollIdle", "debounce"},
                             !.listening = FALSE,
                             !.observers = "disconnected",
                             !.observed = {},
                             !.transform =
                                 [el \in Items |->
                                     IF el \in p.elements
                                     THEN p.items[el].initialTransform
                                     ELSE @[el]],
                             !.elements = {},
                             !.items = [el \in Items |-> NoItem],
                             !.visibleElements = {},
                             !.destroyed = TRUE,
                             !.pass.destroyed = TRUE]

\* addElement(element, options); createParallaxItem throws for an element
\* that cannot be processed
Parallax_addElement(p, el) ==
    IF el \in p.elements THEN [p EXCEPT !.pass.returned = "item"]
    ELSE IF el \in p.faulty
    THEN Parallax_handleError([p EXCEPT !.pass.faulted = @ \cup {el},
                                       !.pass.returned = "null"], 1)
    ELSE [p EXCEPT !.elements = @ \cup {el},
                   !.items[el] = Parallax_createParallaxItem(p, el),
                   !.observed = IF p.observer # "null" THEN @ \cup {el}
                                ELSE @,
                   !.pass.returned = "item"]

\* removeElement(element); unobserve and the style writes throw for no
\* element, so the catch is never entered
Parallax_removeElement(p, el) ==
    IF el \notin p.elements THEN [p EXCEPT !.pass.returned = "false"]
    ELSE LET p1 == [p EXCEPT !.observed = @ \ {el},
                             !.visibleElements = @ \ {el}]
             p2 == Parallax_resetElementStyles(p1, el)
         IN [p2 EXCEPT !.elements = @ \ {el},
                       !.items[el] = NoItem,
                       !.pass.returned = "true"]

\* updateOptions(newOptions): a changed useIntersectionObserver replaces
\* the observer, a changed selector, speed, direction or offset registers
\* the elements again
Parallax_updateOptions(p, newOptions) ==
    LET p1 == [p EXCEPT !.options = Assign(p.options, newOptions)]
        p2 == IF p.options.useIntersectionObserver
                     # p1.options.useIntersectionObserver
              THEN Parallax_setupIntersectionObserver(
                       IF p1.observer # "null"
                       THEN [p1 EXCEPT !.observer = "null",
                                       !.observed = {},
                                       !.visibleElements = {}]
                       ELSE p1)
              ELSE p1
    IN IF \E key \in {"selector", "speed", "direction", "offset"} :
              p.options[key] # p2.options[key]
       THEN Parallax_setupElements(p2)
       ELSE p2

\* handleScroll(), with window.pageYOffset
Parallax_handleScroll(p, pageYOffset) ==
    [p EXCEPT !.currentScrollY = pageYOffset,
              !.currentScrollX = p.pageXOffset,
              !.isScrolling = TRUE,
              !.timers = @ \cup {"scrollIdle"}]

\* the function throttle(handleScroll, 16) returns
Parallax_throttledScroll(p, pageYOffset) ==
    IF ~p.inThrottle
    THEN [Parallax_handleScroll(p, pageYOffset)
              EXCEPT !.inThrottle = TRUE, !.timers = @ \cup {"throttle"}]
    ELSE p

\* a function debounce(func, wait) returns
Parallax_debounced(p) ==
    [p EXCEPT !.timers = @ \cup {"debounce"}]

\* handleLoad()
Parallax_handleLoad(p) ==
    [p EXCEPT !.timers = @ \cup {"load"}]

\* the callback of a timer
Parallax_timeout(p, kind) ==
    LET p1 == [p EXCEPT !.timers = @ \ {kind}, !.pass.fired = kind]
    IN CASE kind = "scrollIdle" -> [p1 EXCEPT !.isScrolling = FALSE]
         [] kind = "throttle" -> [p1 EXCEPT !.inThrottle = FALSE]
         [] kind = "debounce" -> Parallax_updateElementRects(p1)
         [] kind = "load" -> IF p1.elements # {}
                             THEN Parallax_updateElementRects(p1)
                             ELSE p1

\* the callback of the IntersectionObserver for one entry
Parallax_intersection(p, target, isIntersecting) ==
    [p EXCEPT !.visibleElements =
                  IF isIntersecting THEN @ \cup {target} ELSE @ \ {target}]

\* new Parallax(options) -> init(): setupElements, bindEvents,
\* setupObservers, start; on a page scrolled to the top whose elements
\* carry the data attributes dataset and the computed transforms baseline
Parallax_new(options, dataset, baseline) ==
    LET p0 == [isRunning |-> FALSE, rafId |-> "null", rafPending |-> 0,
               frameCount |-> 0, currentScrollY |-> 0, currentScrollX |-> 0,
               pageXOffset |-> 0,
               isScrolling |-> FALSE, inThrottle |-> FALSE,
               options |-> Assign(DefaultParallaxOptions, options),
               dataset |-> dataset, transform |-> baseline,
               elements |-> {}, items |-> [el \in Items |-> NoItem],
               visibleElements |-> {}, faulty |-> {},
               observer |-> "null", observed |-> {},
               listening |-> TRUE, observers |-> "connected",
               timers |-> {}, destroyed |-> FALSE, pass |-> NoPass]
    IN [Parallax_start(
            Parallax_setupIntersectionObserver(Parallax_setupElements(p0)),
            0) EXCEPT !.pass = NoPass]

\* the computed transform the stylesheet gives each element
Baseline ==
    [el \in Items |-> IF el = 1 THEN ZeroTransform
                      ELSE [x |-> 20, y |-> -30]]

\* new Parallax() on a page without data-parallax-* attributes
Parallax_constructor ==
    Parallax_new(<<>>, [el \in Items |-> NoData], Baseline)

\* options passed to new Parallax: none, the maxTransform of the page's
\* own instance scaled to the page, a zero bound, no containment
ParallaxCtorOptions ==
    {<<>>, [maxTransform |-> 300], [maxTransform |-> 0],
     [containTransforms |-> FALSE]}

\* options passed to updateOptions
ParallaxNewOptions ==
    {[speed |-> 500], [direction |-> "horizontal"], [maxTransform |-> 0]}

\* data-parallax-* attributes of the first element
DataChoices ==
    {NoData,
     [speed |-> 300, direction |-> "horizontal", offset |-> 40],
     [speed |-> -500, direction |-> "both", offset |-> Undefined],
     [speed |-> Undefined, direction |-> "diagonal", offset |-> Undefined]}

\* offsets the page is scrolled to under a Parallax instance
ParallaxScrollPositions == {0, 20, 400}

\* new Smoothscroller(options) at any time: the fields are initialised
\* from the page as it is, then init() or the fallback
Smoothscroller_new(s, options) ==
    LET s0 == [s EXCEPT !.currentScroll = s.scrollY,
                        !.targetScroll = s.scrollY,
                        !.sinceLast = 0,
                        !.isRunning = FALSE,
                        !.animationFrameId = "null",
                        !.rafPending = 0,
                        !.animations = <<>>,
                        !.isAnimating = FALSE,
                        !.currentAnimation = NoAnimation,
                        !.config = constructorConfig(options),
                        !.easings = builtinEasings,
                        !.nativeTimeouts = <<>>,
                        !.dom = [wrapperElement |-> "null",
                                 wrapperInDocument |-> FALSE,
                                 styled |-> FALSE, listening |-> FALSE,
                                 resizeObserver |-> "null"]]
    IN [(IF _shouldUseSmooth(s0) THEN init(s0) ELSE s0) EXCEPT
           !.step = NoStep]

\* ------------------------------------------------------------- OpenScroll
\* names a page passes to the OpenScroll object
Names == {"SmoothScroller", "Smoothscroller", "Parallax", "Missing"}

\* the name property of the class that window[name] holds: the plugins
\* assign window.SmoothScroller = Smoothscroller and
\* window.Parallax = Parallax; a class declaration creates no property of
\* window
Window(name) ==
    CASE name = "SmoothScroller" -> "Smoothscroller"
      [] name = "Parallax" -> "Parallax"
      [] OTHER -> "undefined"

\* new OpenScroll() on a page whose scripts built one instance of each
\* class themselves (instances 1 and 2); the variables follow the newest
\* instance of each class, an instance that was replaced is not followed
OpenScroll_constructor ==
    [instances |-> [className \in Names |-> 0],
     nextInstance |-> 3,
     live |-> [Smoothscroller |-> 1, Parallax |-> 2],
     started |-> [name \in Names |-> 0],   \* history: the instance the
                                           \* last start(name) returned,
                                           \* until stop(name) is called
     call |-> NoCall]

\* start(AnimationClass, options) with a string: what it does to the
\* OpenScroll object
OpenScroll_start(o, AnimationClass) ==
    LET className == Window(AnimationClass)
        instance == o.nextInstance
    IN IF className = "undefined"
       THEN [o EXCEPT !.call = [NoCall EXCEPT !.op = "start",
                                              !.name = AnimationClass,
                                              !.threw = TRUE]]
       ELSE [o EXCEPT !.instances[className] = instance,
                      !.nextInstance = instance + 1,
                      !.live[className] = instance,
                      !.started[AnimationClass] = instance,
                      !.call = [NoCall EXCEPT !.op = "start",
                                              !.name = AnimationClass,
                                              !.instance = instance]]

\* getInstance(className): 0 stands for null
OpenScroll_getInstance(o, className) == o.instances[className]

\* isRunning(className)
OpenScroll_isRunning(o, className) == o.instances[className] # 0

\* stop(className): what it does to the OpenScroll object, given that the
\* instance's stop() and destroy() threw or not
OpenScroll_stop(o, className, threw) ==
    LET o1 == [o EXCEPT !.started[className] = 0]
    IN IF o.instances[className] = 0
       THEN [o1 EXCEPT !.call = [NoCall EXCEPT !.op = "stop",
                                               !.name = className,
                                               !.result = "false"]]
       ELSE IF threw
       THEN [o1 EXCEPT !.call = [NoCall EXCEPT !.op = "stop",
                                               !.name = className,
                                               !.threw = TRUE]]
       ELSE [o1 EXCEPT !.instances[className] = 0,
                       !.call = [NoCall EXCEPT !.op = "stop",
                                               !.name = className,
                                               !.result = "true"]]

\* new Smoothscroller(options) on a page that is scrolled to the top
constructor(options) ==
    /\ config = constructorConfig(options)
    /\ easings = builtinEasings
    /\ scrollY = 0
    /\ currentScroll = 0
    /\ targetScroll = 0
    /\ sinceLast = 0
    /\ animations = <<>>
    /\ isAnimating = FALSE
    /\ currentAnimation = NoAnimation
    /\ scrollEvent = FALSE
    \* init() -> start()
    /\ isRunning = TRUE
    /\ animationFrameId = "live"
    /\ rafPending = 1
    /\ nextId = 1
    \* init() -> setupScrollStructure(), listeners, ResizeObserver
    /\ dom = [wrapperElement |-> "div", wrapperInDocument |-> TRUE,
              styled |-> TRUE, listening |-> TRUE,
              resizeObserver |-> "observing"]
    /\ prefersReducedMotion = FALSE
    /\ nativeTimeouts = <<>>
    /\ events = <<>>
    /\ step = NoStep

\* new SmoothScroller(options) where the user prefers reduced motion:
\* _setupFallback() instead of init()
constructorReducedMotion(options) ==
    /\ config = constructorConfig(options)
    /\ easings = builtinEasings
    /\ scrollY = 0
    /\ currentScroll = 0
    /\ targetScroll = 0
    /\ sinceLast = 0
    /\ animations = <<>>
    /\ isAnimating = FALSE
    /\ currentAnimation = NoAnimation
    /\ scrollEvent = FALSE
    /\ isRunning = FALSE
    /\ animationFrameId = "null"
    /\ rafPending = 0
    /\ nextId = 1
    /\ dom = [wrapperElement |-> "null", wrapperInDocument |-> FALSE,
              styled |-> FALSE, listening |-> FALSE,
              resizeObserver |-> "null"]
    /\ prefersReducedMotion = TRUE
    /\ nativeTimeouts = <<>>
    /\ events = <<>>
    /\ step = NoStep

Init ==
    /\ openScroll = OpenScroll_constructor
    /\ \E options \in CtorOptions : constructor(options)
    /\ parallax = Parallax_constructor

InitTarget ==
    /\ openScroll = OpenScroll_constructor
    /\ \E options \in CtorOptions :
           constructor(options) \/ constructorReducedMotion(options)
    /\ parallax = Parallax_constructor

InitTransform ==
    /\ openScroll = OpenScroll_constructor
    /\ constructor(NoOptions)
    /\ \E options \in ParallaxCtorOptions, data \in DataChoices :
           parallax = Parallax_new(options,
                                   [el \in Items |->
                                       IF el = 1 THEN data ELSE NoData],
                                   Baseline)

InitItems ==
    /\ openScroll = OpenScroll_constructor
    /\ constructor(NoOptions)
    /\ \E data \in DataChoices :
           parallax = Parallax_new([maxTransform |-> 300],
                                   [el \in Items |->
                                       IF el = 1 THEN data ELSE NoData],
                                   Baseline)

\* a Parallax instance whose elements stay where they are (speed 0)
InitParallax ==
    /\ openScroll = OpenScroll_constructor
    /\ \E options \in CtorOptions : constructor(options)
    /\ parallax = Parallax_new([speed |-> 0], [el \in Items |-> NoData],
                               Baseline)

InitSmooth ==
    /\ openScroll = OpenScroll_constructor
    /\ \E options \in SmoothCtorOptions : constructor(options)
    /\ parallax = Parallax_constructor

\* --------------------------------------------------------------- actions
\* an operation starts with an empty record of what it did
Begin == [Self EXCEPT !.step = NoStep]

\* dt ticks after the previous operation the browser runs a pending
\* requestAnimationFrame callback (time passes only here: every other
\* operation happens at the instant of the frame before it)
Frame(dt) ==
    /\ rafPending > 0
    /\ Commit(updateScroll(
           [Begin EXCEPT
               !.sinceLast = Min(@ + dt, ClockCap),
               !.currentAnimation.sinceStart =
                   IF currentAnimation.id = 0 THEN @
                   ELSE Min(@ + dt, ClockCap),
               !.rafPending = rafPending - 1,
               !.animationFrameId = IF @ = "live" THEN "stale" ELSE @]))

\* the page calls scrollTo(target, options)
ScrollTo(target, options) ==
    /\ (nextId - 1) + Reserved
           + (IF Reentrant(options.onComplete) THEN 2 ELSE 1) <= MaxAnims
    /\ Commit(scrollTo(Begin, target, options))

\* the page calls scrollTo with a target of any kind
ScrollToTarget(target, options) ==
    /\ (nextId - 1) + Reserved + 1 <= MaxAnims
    /\ Len(nativeTimeouts) < MaxAnims
    /\ Commit(scrollToTarget([Begin EXCEPT !.step.api = "scrollTo",
                                           !.step.target = target],
                             target, options))

\* the page calls scrollToElement
ScrollToElement(selector, options) ==
    /\ (nextId - 1) + Reserved + 1 <= MaxAnims
    /\ Len(nativeTimeouts) < MaxAnims
    /\ Commit(scrollToElement([Begin EXCEPT !.step.api = "scrollToElement",
                                            !.step.target = selector],
                              selector, options))

\* a timeout of _nativeScrollTo expires
NativeTimeout ==
    /\ nativeTimeouts # <<>>
    /\ Commit(nativeTimeout(Begin))

\* the user scrolls the page
NativeScroll(y) ==
    /\ y # scrollY
    /\ Commit([Begin EXCEPT !.scrollY = y,
                                            !.scrollEvent = TRUE])

\* the browser dispatches the scroll event to handleScroll
HandleScroll ==
    /\ scrollEvent
    /\ dom.listening
    /\ Commit(handleScroll([Begin EXCEPT
                                !.scrollEvent = FALSE]))

Stop == Commit(stop(Begin))

Start == Commit(start(Begin))

UpdateConfig(options) == Commit(updateConfig(Begin, options))

Destroy == Commit(destroy(Begin))

\* the tab is hidden or shown again
VisibilityChange(visibilityState) ==
    /\ dom.listening
    /\ Commit(handleVisibilityChange(Begin, visibilityState))

\* time passes while the frame loop is suspended
Suspended(dt) ==
    /\ ~isRunning
    /\ Commit([Begin EXCEPT
                   !.sinceLast = Min(@ + dt, ClockCap),
                   !.currentAnimation.sinceStart =
                       IF currentAnimation.id = 0 THEN @
                       ELSE Min(@ + dt, ClockCap)])

\* the page calls a built-in entry of scroller.easings
Evaluate(name, t) ==
    Commit([Begin EXCEPT !.step.evaluated =
                             [name |-> name, t |-> t,
                              value |-> Builtin(name, t)]])

AddEasing(name, fn) ==
    Commit(addEasing([Begin EXCEPT !.step.addEasing =
                                       [name |-> name, fn |-> fn]],
                     name, fn))

\* ------------------------------------------------- operations on Parallax
PBegin == [parallax EXCEPT !.pass = NoPass]

\* the Parallax instance after a handler returned; the SmoothScroller
\* instance did nothing
PCommitInstance(p) ==
    /\ parallax' = p
    /\ step' = NoStep
    /\ UNCHANGED <<currentScroll, targetScroll, sinceLast, isRunning,
                   animationFrameId, animations, isAnimating,
                   currentAnimation, config, easings, rafPending, nextId,
                   dom, prefersReducedMotion, nativeTimeouts, events>>

\* ... and the OpenScroll object was not called
PCommit(p) ==
    /\ PCommitInstance(p)
    /\ openScroll' = [openScroll EXCEPT !.call = NoCall]

\* the browser runs the frame callback of the Parallax instance
ParallaxFrame ==
    /\ parallax.rafPending > 0
    /\ PCommit(Parallax_animate(
           [PBegin EXCEPT !.rafPending = @ - 1,
                          !.rafId = IF @ = "live" THEN "stale" ELSE @]))
    /\ UNCHANGED <<scrollY, scrollEvent>>

\* the user scrolls and the scroll listener of the Parallax instance runs
ParallaxScroll(y) ==
    /\ parallax.listening
    /\ y # scrollY
    /\ scrollY' = y
    /\ scrollEvent' = TRUE
    /\ PCommit(Parallax_throttledScroll(PBegin, y))

\* the user scrolls sideways and the scroll listener runs
ParallaxScrollX(x) ==
    /\ parallax.listening
    /\ x # parallax.pageXOffset
    /\ PCommit(Parallax_throttledScroll([PBegin EXCEPT !.pageXOffset = x],
                                        scrollY))
    /\ UNCHANGED <<scrollY, scrollEvent>>

\* the page calls removeElement
ParallaxRemove(el) ==
    /\ PCommit(Parallax_removeElement(
                   [PBegin EXCEPT !.pass.api = "removeElement",
                                  !.pass.element = el], el))
    /\ UNCHANGED <<scrollY, scrollEvent>>

\* the page calls addElement
ParallaxAdd(el) ==
    /\ PCommit(Parallax_addElement(
                   [PBegin EXCEPT !.pass.api = "addElement",
                                  !.pass.element = el], el))
    /\ UNCHANGED <<scrollY, scrollEvent>>

\* the page calls updateOptions
ParallaxUpdateOptions(newOptions) ==
    /\ PCommit(Parallax_updateOptions(
                   [PBegin EXCEPT !.pass.api = "updateOptions"],
                   newOptions))
    /\ UNCHANGED <<scrollY, scrollEvent>>

\* a resize event reaches the debounced handleResize
ParallaxResize ==
    /\ parallax.listening
    /\ PCommit(Parallax_debounced(PBegin))
    /\ UNCHANGED <<scrollY, scrollEvent>>

\* the ResizeObserver or the MutationObserver reports a change
ParallaxObserved ==
    /\ parallax.observers = "connected"
    /\ PCommit(Parallax_debounced(PBegin))
    /\ UNCHANGED <<scrollY, scrollEvent>>

\* the load event
ParallaxLoad ==
    /\ parallax.listening
    /\ PCommit(Parallax_handleLoad(PBegin))
    /\ UNCHANGED <<scrollY, scrollEvent>>

\* a pending timer expires
ParallaxTimeout(kind) ==
    /\ kind \in parallax.timers
    /\ PCommit(Parallax_timeout(PBegin, kind))
    /\ UNCHANGED <<scrollY, scrollEvent>>

\* the IntersectionObserver reports an element it observes
ParallaxIntersection(target, isIntersecting) ==
    /\ target \in parallax.observed
    /\ (target \in parallax.visibleElements) # isIntersecting
    /\ PCommit(Parallax_intersection(PBegin, target, isIntersecting))
    /\ UNCHANGED <<scrollY, scrollEvent>>

\* the page breaks an element: from now on processing it throws
ParallaxFault(i) ==
    /\ i \notin parallax.faulty
    /\ PCommit([PBegin EXCEPT !.faulty = @ \cup {i}])
    /\ UNCHANGED <<scrollY, scrollEvent>>

\* updateOptions with a changed selector, speed, direction or offset
ParallaxSetup ==
    /\ PCommit(Parallax_setupElements(PBegin))
    /\ UNCHANGED <<scrollY, scrollEvent>>

ParallaxStop ==
    /\ PCommit(Parallax_stop(PBegin))
    /\ UNCHANGED <<scrollY, scrollEvent>>

ParallaxStart ==
    /\ PCommit(Parallax_start(PBegin, scrollY))
    /\ UNCHANGED <<scrollY, scrollEvent>>

ParallaxDestroy ==
    /\ PCommit(Parallax_destroy(PBegin))
    /\ UNCHANGED <<scrollY, scrollEvent>>

\* the page calls openScroll.start(name, options): the class is looked up,
\* constructed and recorded
OpenScrollStart(name, options) ==
    /\ openScroll.nextInstance <= MaxInstances
    /\ openScroll' = OpenScroll_start(openScroll, name)
    /\ CASE Window(name) = "Smoothscroller" ->
                CommitInstance(Smoothscroller_new(Begin, options))
         [] Window(name) = "Parallax" ->
                /\ PCommitInstance(Parallax_new(<<>>, parallax.dataset,
                                                parallax.transform))
                /\ UNCHANGED <<scrollY, scrollEvent>>
         [] OTHER -> CommitInstance(Begin)

\* the page calls openScroll.stop(className): the recorded instance is
\* stopped, destroyed and forgotten
OpenScrollStop(className) ==
    LET instance == openScroll.instances[className]
        followed == openScroll.live[className] = instance
    IN CASE instance # 0 /\ className = "Smoothscroller" ->
                LET s1 == IF followed THEN destroy(stop(Begin)) ELSE Begin
                IN /\ openScroll' = OpenScroll_stop(openScroll, className,
                                                    s1.step.threw)
                   /\ CommitInstance(s1)
         [] instance # 0 /\ className = "Parallax" ->
                LET p1 == IF followed
                          THEN Parallax_destroy(Parallax_stop(PBegin))
                          ELSE PBegin
                IN /\ openScroll' = OpenScroll_stop(openScroll, className,
                                                    FALSE)
                   /\ PCommitInstance(p1)
                   /\ UNCHANGED <<scrollY, scrollEvent>>
         [] OTHER ->
                /\ openScroll' = OpenScroll_stop(openScroll, className,
                                                 FALSE)
                /\ CommitInstance(Begin)

\* a page that creates and stops its effects through the OpenScroll object
NextOpenScroll ==
    \/ \E name \in Names : OpenScrollStart(name, NoOptions)
    \/ \E className \in Names : OpenScrollStop(className)
    \/ \E dt \in Deltas : Frame(dt)
    \/ \E y \in ScrollPositions : NativeScroll(y)
    \/ HandleScroll
    \/ ParallaxFrame

OpenScrollSpec == Init /\ [][NextOpenScroll]_vars

\* the queue machine under the constructed configuration
Next ==
    \/ \E dt \in Deltas : Frame(dt)
    \/ \E r \in Requests : ScrollTo(r[1], r[2])
    \/ \E y \in ScrollPositions : NativeScroll(y)
    \/ HandleScroll
    \/ Stop
    \/ Start

Spec == Init /\ [][Next]_vars

\* the queue machine with a custom easing registered at run time
NextEasing ==
    \/ \E dt \in Deltas : Frame(dt)
    \/ \E r \in Requests : ScrollTo(r[1], r[2])
    \/ HandleScroll
    \/ \E fn \in {"double", "notAFunction"} : AddEasing("custom", fn)

EasingSpec == Init /\ [][NextEasing]_vars

\* the easing registry over the life of an instance: registrations under
\* a new name and under a built-in name, animations that use them, stop,
\* start, reconfiguration and teardown
NextRegistry ==
    \/ \E name \in {"custom", "linear"},
          fn \in {"double", "linear", "notAFunction"} : AddEasing(name, fn)
    \/ \E r \in ResumeRequests : ScrollTo(r[1], r[2])
    \/ \E dt \in Deltas : Frame(dt)
    \/ Stop
    \/ Start
    \/ \E o \in UpdateOptions : UpdateConfig(o)
    \/ Destroy

RegistrySpec == Init /\ [][NextRegistry]_vars

\* the built-in easing functions called at the ends of [0, 1], on an
\* instance that is running or stopped
NextEndpoints ==
    \/ \E name \in BuiltinNames, t \in {0, 1} : Evaluate(name, t)
    \/ Stop
    \/ Start

EndpointSpec == InitSmooth /\ [][NextEndpoints]_vars

\* one user scroll of 10 px smoothed away, by frames one nominal frame
\* and four nominal frames apart
StepCtorOptions == {NoOptions, [NoOptions EXCEPT !.smoothness = 90]}
StepDeltas == {FrameTicks, 4 * FrameTicks}
StepScroll == scrollY = 0 /\ NativeScroll(1000)

InitStep ==
    /\ openScroll = OpenScroll_constructor
    /\ \E options \in StepCtorOptions : constructor(options)
    /\ parallax = Parallax_constructor

NextStep ==
    \/ \E dt \in StepDeltas : Frame(dt)
    \/ StepScroll
    \/ HandleScroll

StepSpec == InitStep /\ [][NextStep]_vars

\* the smoother under frames that follow the previous operation at once:
\* the default configuration and one constructed with a negative
\* maxDeltaTime, which the constructor stores as it is
DeltaCtorOptions == {NoOptions, [NoOptions EXCEPT !.maxDeltaTime = -1]}
DeltaFrames == {0, FrameTicks}
DeltaScrollPositions == {400, 1000}

InitDelta ==
    /\ openScroll = OpenScroll_constructor
    /\ \E options \in DeltaCtorOptions : constructor(options)
    /\ parallax = Parallax_constructor

\* frames, as long as the smoothed position is within a page length of
\* the page
NearbyFrame(dt) ==
    /\ Abs(currentScroll) <= MaxScrollY
    /\ Frame(dt)

NextDelta ==
    \/ \E dt \in DeltaFrames : NearbyFrame(dt)
    \/ \E y \in DeltaScrollPositions : NativeScroll(y)
    \/ HandleScroll

DeltaSpec == InitDelta /\ [][NextDelta]_vars

\* the frame loop stopped and started by the page, and stopped by the
\* onComplete callback of an animation
LoopRequests ==
    {<<1000, [NoScrollOptions EXCEPT !.easing = "linear"]>>,
     <<1000, [NoScrollOptions EXCEPT !.easing = "linear",
                                     !.onComplete = "stop"]>>}

NextLoop ==
    \/ \E dt \in Deltas : Frame(dt)
    \/ \E r \in LoopRequests : ScrollTo(r[1], r[2])
    \/ Stop
    \/ Start

LoopSpec == Init /\ [][NextLoop]_vars

\* animations to a position of the page and to one beyond its end, on a
\* page the user leaves alone: every scroll event is one that a
\* window.scrollTo of the instance queued
HandBackRequests ==
    {<<1000, [NoScrollOptions EXCEPT !.easing = "linear"]>>,
     <<3000, [NoScrollOptions EXCEPT !.easing = "linear"]>>}

NextHandBack ==
    \/ \E dt \in Deltas : Frame(dt)
    \/ \E r \in HandBackRequests : ScrollTo(r[1], r[2])
    \/ HandleScroll

HandBackSpec == Init /\ [][NextHandBack]_vars

\* the promises of scrollTo under a loop that keeps running: plain
\* requests, a request with a negative duration, and an immediate
\* override.  The browser runs a requested frame callback, hence the weak
\* fairness of the frame.
PromiseRequests ==
    {<<1000, [NoScrollOptions EXCEPT !.easing = "linear"]>>,
     <<0, [NoScrollOptions EXCEPT !.easing = "linear", !.duration = -4]>>,
     <<0, [NoScrollOptions EXCEPT !.immediate = TRUE]>>}

LoopFrame == \E dt \in PositiveDeltas : Frame(dt)

NextPromise ==
    \/ LoopFrame
    \/ \E r \in PromiseRequests : ScrollTo(r[1], r[2])

PromiseSpec ==
    /\ Init
    /\ [][NextPromise]_vars
    /\ WF_vars(LoopFrame)

\* animations with a registered easing and a positive duration, started
\* from the top or from where the user scrolled to
InterpolationRequests ==
    {<<1000, [NoScrollOptions EXCEPT !.easing = "linear"]>>,
     <<1000, NoScrollOptions>>,
     <<0, [NoScrollOptions EXCEPT !.easing = "linear", !.duration = 4]>>}

NextInterpolation ==
    \/ \E dt \in SmoothDeltas : Frame(dt)
    \/ \E r \in InterpolationRequests : ScrollTo(r[1], r[2])
    \/ \E y \in ScrollPositions : NativeScroll(y)
    \/ HandleScroll

InterpolationSpec == Init /\ [][NextInterpolation]_vars

\* animations requested by easing name
NextFallback ==
    \/ \E dt \in ResumeDeltas : Frame(dt)
    \/ \E r \in EasingRequests : ScrollTo(r[1], r[2])
    \/ \E y \in ScrollPositions : NativeScroll(y)

FallbackSpec == Init /\ [][NextFallback]_vars

\* the user scrolls again once the smoother has caught up with the page
\* (this keeps the distance the smoother has to cover bounded)
SettledScroll ==
    /\ currentScroll = scrollY
    /\ ~scrollEvent
    /\ \E y \in ScrollPositions \cup {0} : NativeScroll(y)

\* the continuous smoother under the configurations an instance can hold
NextSmooth ==
    \/ \E dt \in SmoothDeltas : Frame(dt)
    \/ SettledScroll
    \/ HandleScroll
    \/ Stop
    \/ Start
    \/ \E o \in UpdateOptions : UpdateConfig(o)

SmoothSpec == InitSmooth /\ [][NextSmooth]_vars

\* suspension and resumption of the frame loop: frames follow each other
\* within maxDeltaTime, time also passes while the loop is stopped, and
\* animations are requested while the loop runs
NextResume ==
    \/ \E dt \in ResumeDeltas : Frame(dt)
    \/ isRunning /\ \E r \in ResumeRequests : ScrollTo(r[1], r[2])
    \/ \E y \in ScrollPositions : NativeScroll(y)
    \/ HandleScroll
    \/ Stop
    \/ Start
    \/ \E v \in {"hidden", "visible"} : VisibilityChange(v)
    \/ \E dt \in SuspendDeltas : Suspended(dt)

ResumeSpec == Init /\ [][NextResume]_vars

\* the Parallax instance with its page, its timers and its teardown
NextParallax ==
    \/ ParallaxFrame
    \/ \E y \in ScrollPositions \cup {0} : ParallaxScroll(y)
    \/ ParallaxResize
    \/ ParallaxObserved
    \/ ParallaxLoad
    \/ \E kind \in TimerKinds : ParallaxTimeout(kind)
    \/ \E i \in Items, b \in BOOLEAN : ParallaxIntersection(i, b)
    \/ \E i \in Items : ParallaxFault(i)
    \/ ParallaxSetup
    \/ ParallaxStop
    \/ ParallaxStart
    \/ ParallaxDestroy

ParallaxSpec == InitParallax /\ [][NextParallax]_vars

\* the items of a Parallax instance: registration, frames under scrolling
\* along both axes, removal
NextTransform ==
    \/ ParallaxFrame
    \/ \E y \in ParallaxScrollPositions : ParallaxScroll(y)
    \/ \E x \in ScrollPositions \cup {0} : ParallaxScrollX(x)
    \/ ParallaxTimeout("throttle")
    \/ \E i \in Items, b \in BOOLEAN : ParallaxIntersection(i, b)

TransformSpec == InitTransform /\ [][NextTransform]_vars

\* the tracked set of a Parallax instance: registration, re-registration
\* by updateOptions, removal, with frames moving the elements in between
NextItems ==
    \/ ParallaxFrame
    \/ \E y \in ScrollPositions \cup {0} : ParallaxScroll(y)
    \/ ParallaxTimeout("throttle")
    \/ \E i \in Items, b \in BOOLEAN : ParallaxIntersection(i, b)
    \/ \E i \in Items : ParallaxRemove(i)
    \/ \E i \in Items : ParallaxAdd(i)
    \/ \E o \in ParallaxNewOptions : ParallaxUpdateOptions(o)

ItemSpec == InitItems /\ [][NextItems]_vars

\* the tracked and the visible set of a Parallax instance on a page that
\* does not scroll: notifications of the observer, registration, removal,
\* options that change the selector or the observer, teardown
VisibleOptions ==
    {[selector |-> ".hero"], [selector |-> ".missing"],
     [selector |-> DefaultSelector],
     [useIntersectionObserver |-> FALSE],
     [useIntersectionObserver |-> TRUE],
     [speed |-> 500]}

NextVisible ==
    \/ \E i \in Items, b \in BOOLEAN : ParallaxIntersection(i, b)
    \/ \E i \in Items : ParallaxRemove(i)
    \/ \E i \in Items : ParallaxAdd(i)
    \/ \E o \in VisibleOptions : ParallaxUpdateOptions(o)
    \/ ParallaxDestroy

VisibleSpec == Init /\ [][NextVisible]_vars

\* the scroll sample of a running Parallax instance whose elements stay
\* where they are: scrolling along both axes, the timers of the throttle
\* and of the scroll-idle flag, frames.  A timer that is pending expires
\* and a requested frame runs, hence the weak fairness.
SampleScrollPositions == {0, 400, 1000}

SampleScroll ==
    \/ \E y \in SampleScrollPositions : ParallaxScroll(y)
    \/ \E x \in {0, 400} : ParallaxScrollX(x)

NextSample ==
    \/ SampleScroll
    \/ ParallaxFrame
    \/ ParallaxTimeout("throttle")
    \/ ParallaxTimeout("scrollIdle")

SampleSpec ==
    /\ InitParallax
    /\ [][NextSample]_vars
    /\ WF_vars(ParallaxFrame)
    /\ WF_vars(ParallaxTimeout("throttle"))
    /\ WF_vars(ParallaxTimeout("scrollIdle"))

\* both engines on one page with their teardown
NextTeardown ==
    \/ Destroy
    \/ Stop
    \/ Start
    \/ \E dt \in ResumeDeltas : Frame(dt)
    \/ \E o \in UpdateOptions : UpdateConfig(o)
    \/ ParallaxDestroy
    \/ ParallaxStop
    \/ ParallaxStart
    \/ ParallaxFrame
    \/ \E y \in ScrollPositions \cup {0} : ParallaxScroll(y)
    \/ \E kind \in TimerKinds : ParallaxTimeout(kind)

TeardownSpec == Init /\ [][NextTeardown]_vars

\* scroll requests with targets of every kind, with and without the
\* native fallback
NextTarget ==
    \/ \E target \in Targets, options \in TargetOptions :
           ScrollToTarget(target, options)
    \/ \E selector \in Selectors : ScrollToElement(selector, NoScrollOptions)
    \/ \E dt \in Deltas : Frame(dt)
    \/ NativeTimeout

TargetSpec == InitTarget /\ [][NextTarget]_vars

\* the smoother left alone with one user scroll: the target is fixed once
\* the scroll event is handled and every frame has a positive delta.  The
\* browser runs a requested frame callback and dispatches a queued scroll
\* event, hence the weak fairness of both.
FirstScroll == scrollY = 0 /\ \E y \in ScrollPositions : NativeScroll(y)
PositiveFrame == \E dt \in PositiveDeltas : Frame(dt)

NextSettle ==
    \/ PositiveFrame
    \/ FirstScroll
    \/ HandleScroll

SettleSpec ==
    /\ InitSmooth
    /\ [][NextSettle]_vars
    /\ WF_vars(PositiveFrame)
    /\ WF_vars(HandleScroll)

\* ------------------------------------------------------ history helpers
Happened(kind, id) == \E i \in DOMAIN events : events[i] = <<kind, id>>
Count(kind, id) ==
    Cardinality({i \in DOMAIN events : events[i] = <<kind, id>>})
NoneOf(kind) == \A i \in DOMAIN events : events[i][1] # kind
Ids == 1..(nextId - 1)

\* start 1, complete 1, start 2, complete 2, ...
InOrder(n) ==
    [i \in 1..(2 * n) |->
        IF i % 2 = 1 THEN <<"start", (i + 1) \div 2>>
        ELSE <<"complete", i \div 2>>]

TypeOK ==
    /\ isRunning \in BOOLEAN
    /\ isAnimating \in BOOLEAN
    /\ animationFrameId \in {"null", "live", "stale"}
    /\ rafPending \in 0..2
    /\ Len(animations) <= MaxAnims

\* ================================================================= claims

\* C1: the animation queue is FIFO.  As long as the page only enqueues
\* (no immediate override, no scrollTo from inside a completion callback),
\* whatever frames run, the animations become current and complete in the
\* order they were requested, one after the other: the history is a prefix
\* of start 1, complete 1, start 2, complete 2, ...
C1_QueueIsFifo ==
    (NoneOf("discard") /\ NoneOf("reenter"))
        => events = SubSeq(InOrder(MaxAnims), 1, Len(events))

\* C1 witness: animation 1 completed with three animations waiting behind
\* it, and animation 2, the oldest of them, became current.
C1_Witness ==
    /\ step.completed.id = 1
    /\ step.cbBacklog = 3
    /\ currentAnimation.id = 2
    /\ Len(animations) = 2
    /\ events = <<<<"start", 1>>, <<"complete", 1>>, <<"start", 2>>>>

\* C2: immediate override.  Right after scrollTo took the immediate branch
\* the backlog is empty and the new animation is the current one; and an
\* animation that an override discarded (the one in flight or one of the
\* backlog) never has its onComplete invoked afterwards.
C2_ImmediateOverride ==
    /\ step.overrode =>
          /\ animations = <<>>
          /\ isAnimating
          /\ currentAnimation.id = step.accepted
    /\ \A id \in Ids : Happened("discard", id) => ~Happened("complete", id)

\* C2 witness: animation 1 was current with 2 and 3 in the backlog, the
\* override by 4 discarded all three, and 4 has just completed.
C2_Witness ==
    /\ step.completed.id = 4
    /\ \A id \in 1..3 : Happened("discard", id)
    /\ Happened("start", 1) /\ ~Happened("start", 2) /\ ~Happened("start", 3)

\* C3: onComplete of an accepted animation is invoked at most once; it is
\* invoked (once) on the tick where the animation reaches progress 1 while
\* current; it is not invoked for an animation an override discarded.
C3_OnCompleteOnce ==
    /\ \A id \in Ids : Count("complete", id) <= 1
    /\ \A id \in Ids : Happened("discard", id) => Count("complete", id) = 0
    /\ (step.animated # 0 /\ step.reachedOne) =>
          /\ step.completed.id = step.animated
          /\ Count("complete", step.animated) = 1

\* C3 witness: animation 3 reached progress 1 and completed in a run in
\* which animation 1 was discarded and animation 2 completed before it.
C3_Witness ==
    /\ step.reachedOne
    /\ step.completed.id = 3
    /\ Happened("discard", 1)
    /\ Happened("complete", 2)

\* C4: exclusive control.  A frame that finds an animation current ticks
\* that animation and does not run the smoothing step; no frame does both;
\* and a scroll event dispatched while an animation is current leaves
\* targetScroll unchanged.
C4_ExclusiveControl ==
    [][/\ (isAnimating /\ currentAnimation.id # 0
            /\ (step'.animated # 0 \/ step'.smoothed))
           => (step'.animated = currentAnimation.id /\ ~step'.smoothed)
       /\ ~(step'.animated # 0 /\ step'.smoothed)
       /\ (isAnimating /\ scrollEvent /\ ~scrollEvent')
           => targetScroll' = targetScroll]_vars

\* C4 witness: a frame ticked an animation that goes on, although target
\* and current were further apart than minMovement (the smoother would
\* have moved).
C4_Witness ==
    /\ step.animated # 0
    /\ isAnimating /\ currentAnimation.id = step.animated
    /\ Abs(targetScroll - currentScroll) >= config.minMovement

\* C5 (as claimed): an animation whose duration is <= 0 completes on the
\* first tick after it became current, so after a tick it is never still
\* the current animation.
C5_DegenerateDurationCompletes ==
    ~(/\ step.animated # 0
      /\ currentAnimation.id = step.animated
      /\ currentAnimation.duration <= 0)

\* C6: on the tick where an animation completes, currentScroll and the
\* position pushed to the page are exactly its targetPosition, whatever the
\* easing function returns at 1.
C6_ExactAtCompletion ==
    step.completed.id # 0 =>
        /\ currentScroll = step.completed.targetPosition
        /\ step.pushed = step.completed.targetPosition

\* C6 witness: an animation with the registered custom easing (2 at
\* progress 1) reached progress 1 and completed away from where it started.
C6_Witness ==
    /\ step.completed.id # 0
    /\ step.reachedOne
    /\ step.completed.easing = "custom"
    /\ "custom" \in DOMAIN easings
    /\ step.completed.targetPosition # step.completed.startPosition

\* the gain (1 - smoothness) * deltaTime of one smoothing step is at most 1
\* whatever the elapsed time
UnitGain(cfg) ==
    /\ cfg.smoothness <= 100
    /\ cfg.maxDeltaTime >= 0
    /\ (100 - cfg.smoothness) * cfg.maxDeltaTime <= 100

SameSideOrZero(before, after) ==
    after = 0 \/ Sign(after) = Sign(before)

\* C7 (as claimed): for every configuration the instance can hold and every
\* elapsed frame time, a smoothing step never moves currentScroll past
\* targetScroll: targetScroll - currentScroll keeps its sign or becomes 0.
C7_NoOvershoot ==
    [][step'.smoothed
          => SameSideOrZero(targetScroll - currentScroll,
                            targetScroll' - currentScroll')]_vars

\* C7 (amended): a smoothing step never moves currentScroll past
\* targetScroll when the configuration has smoothness <= 1,
\* maxDeltaTime >= 0 and (1 - smoothness) * maxDeltaTime <= 1, whatever the
\* elapsed frame time.
C7_NoOvershootUnderUnitGain ==
    [][(step'.smoothed /\ UnitGain(config))
          => SameSideOrZero(targetScroll - currentScroll,
                            targetScroll' - currentScroll')]_vars

\* C7 witness: under a unit-gain configuration a frame arrived later than
\* maxDeltaTime, its delta was capped, and the step (not the snap) put
\* currentScroll exactly on a target away from the top.
C7_Witness ==
    /\ step.smoothed /\ ~step.snapped
    /\ UnitGain(config)
    /\ step.deltaTicks = config.maxDeltaTime * FrameTicks
    /\ step.deltaTicks < ClockCap
    /\ targetScroll # 0
    /\ currentScroll = targetScroll

\* the smoother closes in on a fixed target: a snap threshold exists and
\* every step with a positive delta has a gain in (0, 1]
Settling(cfg) ==
    /\ cfg.minMovement > 0
    /\ cfg.smoothness < 100
    /\ cfg.maxDeltaTime > 0
    /\ UnitGain(cfg)

\* a smoothing frame closer to the target than minMovement lands on it
SnapsWithinThreshold ==
    [][(step'.smoothed
            /\ Abs(targetScroll - currentScroll) < config.minMovement)
          => currentScroll' = targetScroll]_vars

\* a smoothing frame that finds currentScroll on the target leaves it there
StaysOnTarget ==
    [][(step'.smoothed /\ currentScroll = targetScroll)
          => currentScroll' = currentScroll]_vars

\* C8 (as claimed): a smoothing frame within minMovement of the target
\* sets currentScroll to targetScroll, later frames leave it there, and
\* with a fixed target and positive frame deltas currentScroll eventually
\* equals targetScroll and stays there.
C8_SnapAndSettle ==
    /\ SnapsWithinThreshold
    /\ StaysOnTarget
    /\ <>[](currentScroll = targetScroll)

\* C8 (amended): the snap and the staying hold for every configuration;
\* currentScroll eventually equals a fixed targetScroll and stays there
\* when minMovement > 0, smoothness < 1, maxDeltaTime > 0 and
\* (1 - smoothness) * maxDeltaTime <= 1.
C8_SnapAndSettleUnderUnitGain ==
    /\ SnapsWithinThreshold
    /\ StaysOnTarget
    /\ Settling(config) => <>[](currentScroll = targetScroll)

\* C8 witness: under such a configuration the smoother followed a user
\* scroll away from the top and the last frame snapped onto the target.
C8_Witness ==
    /\ Settling(config)
    /\ step.snapped
    /\ targetScroll # 0
    /\ currentScroll = targetScroll

\* C9 (as claimed): with a non-empty backlog the channel is never
\* observable as IDLE between two animations, the moment onComplete runs
\* included.
C9_NeverIdleBetween ==
    (step.completed.id # 0 /\ step.cbBacklog > 0) => ~step.cbIdle

\* C10 (as claimed): a completion that leaves the channel IDLE emits
\* onScrollEnd exactly once, a completion that starts the next backlog
\* entry emits none.
C10_ScrollEndOnIdle ==
    step.completed.id # 0 =>
        Cardinality({i \in DOMAIN step.emitted :
                         step.emitted[i] = "onScrollEnd"})
            = (IF isAnimating THEN 0 ELSE 1)

\* C11 (as claimed): the smoothing frame that brings currentScroll from a
\* value away from the target onto the target emits the end-of-motion
\* notification onScrollEnd.
C11_SettleNotifies ==
    [][(step'.smoothed /\ currentScroll # targetScroll
            /\ currentScroll' = targetScroll')
          => \E i \in DOMAIN step'.emitted :
                 step'.emitted[i] = "onScrollEnd"]_vars

\* C13 (as claimed): stop() and the start() that follows it leave
\* currentScroll, targetScroll, the current animation and the backlog as
\* they were.
C13_PauseResumeKeepsState ==
    [][(isRunning' # isRunning)
          => UNCHANGED <<currentScroll, targetScroll, currentAnimation,
                         animations>>]_vars

\* C15 (as claimed): after construction and after any updateConfig calls,
\* config.smoothness lies within [0.5, 0.99].
C15_SmoothnessInRange ==
    /\ SmoothnessMin <= config.smoothness
    /\ config.smoothness <= SmoothnessMax

\* C16 (as claimed): an updateConfig call that carries only the debug
\* option leaves isRunning, the scheduled frame, currentScroll,
\* targetScroll and the queue as they are (so an instance that receives
\* the call stays equal to one that does not), also while stopped.
C16_DebugHasNoEffect ==
    [][(config' # config /\ [config' EXCEPT !.debug = config.debug] = config)
          => UNCHANGED <<isRunning, animationFrameId, rafPending,
                         currentScroll, targetScroll, animations,
                         isAnimating, currentAnimation>>]_vars

\* the distance a linear animation covers in maxDeltaTime nominal frames
MaxAdvance(animation, cfg) ==
    (Abs(animation.targetPosition - animation.startPosition)
         * cfg.maxDeltaTime * FrameTicks) \div animation.duration + 1

\* C14 (as claimed): the first frame after start() resumed a suspended
\* loop advances the scroll value by at most what maxDeltaTime nominal
\* frames allow, in the smoothing regime and when a (linear) animation is
\* current, however long the suspension lasted.
C14_NoCatchUpJump ==
    [][/\ (step.resumed /\ step'.smoothed)
           => Abs(currentScroll' - currentScroll)
                  <= (Abs(targetScroll - currentScroll)
                          * (100 - config.smoothness) * config.maxDeltaTime)
                      \div 100 + 1
       /\ (step.resumed /\ step'.animated # 0
               /\ currentAnimation.easing = "linear"
               /\ currentAnimation.duration > 0)
           => Abs(currentScroll' - currentScroll)
                  <= MaxAdvance(currentAnimation, config)]_vars

\* C12 (as claimed): a destroy() that directly follows a destroy() of the
\* same instance raises no error and leaves the instance as the first call
\* left it, for the SmoothScroller and for the Parallax instance.
C12_DestroyIdempotent ==
    [][/\ (step.destroyed /\ step'.destroyed)
           => /\ ~step'.threw
              /\ UNCHANGED <<isRunning, animationFrameId, rafPending, dom,
                             currentScroll, targetScroll, animations,
                             isAnimating, currentAnimation, config>>
       /\ (parallax.pass.destroyed /\ parallax'.pass.destroyed)
           => /\ ~parallax'.pass.threw
              /\ [parallax' EXCEPT !.pass = NoPass]
                     = [parallax EXCEPT !.pass = NoPass]]_vars

\* C19 (as claimed): when the processing of a tracked item fails during
\* setup, rect measurement or a frame, the pass does not throw, a
\* parallax:error is dispatched for each failed item, the other items of
\* the pass are processed, and a frame still requests the next frame.
C19_ErrorIsolation ==
    LET pass == parallax.pass
        due == IF pass.animated
               THEN parallax.elements \cap parallax.visibleElements
               ELSE parallax.elements
    IN pass.faulted # {} =>
           /\ ~pass.threw
           /\ pass.errors >= Cardinality(pass.faulted)
           /\ (due \ parallax.faulty) \subseteq pass.processed
           /\ pass.animated => parallax.rafPending > 0

\* C20 (as claimed): once destroy() has returned, no timer of the Parallax
\* instance is pending and no timer callback of the instance runs.
C20_NoTimerAfterDestroy ==
    parallax.destroyed =>
        /\ parallax.timers = {}
        /\ parallax.pass.fired = "none"

\* the call left the channel alone
QueueUntouched ==
    UNCHANGED <<currentAnimation, isAnimating, animations>>

\* C17: a scrollTo call whose target is a selector matching no element, or
\* a value that is neither number, element nor string, resolves its
\* promise with false, throws nothing, and leaves the current animation,
\* isAnimating and the backlog unchanged, with and without the fallback.
C17_UnresolvedTargetResolvesFalse ==
    [][(step'.api = "scrollTo" /\ Unresolvable(step'.target))
          => /\ step'.resolved = "false"
             /\ ~step'.threw
             /\ QueueUntouched]_vars

\* C17 witness: such a call was made while an animation was current and
\* another waited in the backlog.
C17_Witness ==
    /\ step.api = "scrollTo" /\ Unresolvable(step.target)
    /\ step.resolved = "false"
    /\ isAnimating /\ animations # <<>>

\* C18 (as claimed): a scrollToElement call whose selector matches no
\* element reports the negative outcome as a resolved result, as scrollTo
\* does with false, neither throwing nor rejecting, and leaves the queue
\* unchanged.
C18_MissingElementResolvesFalse ==
    [][(step'.api = "scrollToElement" /\ Unresolvable(step'.target))
          => /\ step'.resolved = "false"
             /\ ~step'.threw
             /\ QueueUntouched]_vars

\* the tracked elements of the instance
Tracked == parallax.elements

\* C21: with containTransforms true and maxTransform = M >= 0, for every
\* tracked item, whatever its direction, speed, offset and baseline and
\* whatever scroll offsets the instance has sampled, calculateTransform
\* returns x and y within [-M, M].
C21_TransformWithinBounds ==
    (parallax.options.containTransforms /\ parallax.options.maxTransform >= 0)
        => \A el \in Tracked :
              LET transform ==
                      Parallax_calculateTransform(parallax, parallax.items[el])
                  M == parallax.options.maxTransform
              IN /\ -M <= transform.x /\ transform.x <= M
                 /\ -M <= transform.y /\ transform.y <= M

\* C21 witness: a tracked item whose unclamped transform lies beyond a
\* positive bound on the x axis, and a frame has written the bound.
C21_Witness ==
    /\ parallax.options.containTransforms
    /\ parallax.options.maxTransform > 0
    /\ \E el \in Tracked :
          /\ Parallax_rawTransform(parallax, parallax.items[el]).x
                 > parallax.options.maxTransform
          /\ parallax.items[el].lastTransform.x
                 = parallax.options.maxTransform
          /\ parallax.transform[el].x = parallax.options.maxTransform

\* two translations differ by more than d on at least one axis
FartherThan(a, b, d) == Abs(a.x - b.x) > d \/ Abs(a.y - b.y) > d

\* C22: in a frame, the transform computed for an item is written to the
\* element and recorded as lastTransform only if the item is visible and
\* the transform differs from lastTransform by more than 0.1 on at least
\* one axis; if it differs by at most 0.1 on both axes the frame leaves
\* the element's transform and the item's lastTransform as they were.
C22_ChangeSuppression ==
    [][parallax'.pass.animated =>
          \A el \in Items :
             LET transform ==
                     Parallax_calculateTransform(parallax', parallax.items[el])
                 significant ==
                     FartherThan(transform, parallax.items[el].lastTransform,
                                 Epsilon)
             IN /\ el \in parallax'.pass.written =>
                       /\ el \in parallax.visibleElements
                       /\ significant
                       /\ parallax'.transform[el] = transform
                       /\ parallax'.items[el].lastTransform = transform
                /\ ~significant =>
                       /\ el \notin parallax'.pass.written
                       /\ parallax'.transform[el] = parallax.transform[el]
                       /\ parallax'.items[el].lastTransform
                              = parallax.items[el].lastTransform]_vars

\* C22 witness: a frame has just run in which a visible tracked item was
\* not written although its computed transform is not the last applied
\* one (it is within 0.1 of it), while another element was written.
C22_Witness ==
    /\ parallax.pass.animated
    /\ \E el \in Tracked \cap parallax.visibleElements :
          /\ el \notin parallax.pass.written
          /\ Parallax_calculateTransform(parallax, parallax.items[el])
                 # parallax.items[el].lastTransform
    /\ parallax.pass.written # {}

\* C23: every item held in the elements map has its speed within
\* [-2, 2], whatever data attribute or instance speed it was created
\* from, after any sequence of setupElements, addElement and
\* updateOptions.
C23_SpeedWithinRange ==
    \A el \in Tracked :
        /\ SpeedMin <= parallax.items[el].speed
        /\ parallax.items[el].speed <= SpeedMax

\* C23 witness: updateOptions has just set the instance speed to 5 and the
\* items it re-registered hold the speed 2; the item of the first element
\* was made from a data attribute below -2 and holds -2.
C23_Witness ==
    /\ parallax.pass.api = "updateOptions"
    /\ parallax.options.speed > SpeedMax
    /\ 2 \in Tracked /\ parallax.items[2].speed = SpeedMax
    /\ 1 \in Tracked /\ parallax.dataset[1].speed < SpeedMin
    /\ parallax.items[1].speed = SpeedMin

\* C24: removeElement(e) for a tracked e returns true, removes e from the
\* tracked set and from the visible set and sets e's transform to the
\* baseline recorded in its item, leaving the other elements alone; for
\* an e that is not tracked it returns false and changes nothing.
C24_RemoveElement ==
    [][parallax'.pass.api = "removeElement" =>
          LET e == parallax'.pass.element
          IN IF e \in parallax.elements
             THEN /\ parallax'.pass.returned = "true"
                  /\ parallax'.elements = parallax.elements \ {e}
                  /\ parallax'.visibleElements
                         = parallax.visibleElements \ {e}
                  /\ parallax'.transform =
                         [parallax.transform EXCEPT
                             ![e] = parallax.items[e].initialTransform]
             ELSE /\ parallax'.pass.returned = "false"
                  /\ [parallax' EXCEPT !.pass = NoPass]
                         = [parallax EXCEPT !.pass = NoPass]]_vars

\* C24 witness: removeElement has just returned true for the second
\* element: it is untracked and at its baseline, and the first element is
\* still tracked, visible and away from its baseline.
C24_Witness ==
    /\ parallax.pass.api = "removeElement"
    /\ parallax.pass.returned = "true"
    /\ parallax.pass.element = 2
    /\ 2 \notin Tracked
    /\ parallax.transform[2] = Baseline[2]
    /\ 1 \in Tracked \cap parallax.visibleElements
    /\ parallax.transform[1] # Baseline[1]

\* C25 (as claimed): on every tick of an animation whose easing name is
\* not a key of the easing registry, the value applied is the one
\* easeInOutCubic gives: that of the same animation requested with the
\* easing 'easeInOutCubic'.
C25_UnknownEasingFallsBack ==
    (/\ step.animated # 0
     /\ currentAnimation.id = step.animated
     /\ currentAnimation.easing \notin DOMAIN easings)
        => currentScroll =
               currentAnimation.startPosition
                   + Eased(easings["easeInOutCubic"],
                           Progress(currentAnimation.sinceStart,
                                    currentAnimation.duration),
                           currentAnimation.targetPosition
                               - currentAnimation.startPosition)

\* C26: addEasing(name, fn) with a function sets exactly the entry for
\* name to fn (adding it, or replacing what was there) and leaves every
\* other entry as it was; addEasing with a non-function and every other
\* operation leave the registry unchanged; so no entry is ever removed and
\* every built-in name stays a key of the registry.
C26_EasingRegistry ==
    /\ [](DOMAIN builtinEasings \subseteq DOMAIN easings)
    /\ [][LET call == step'.addEasing
          IN /\ DOMAIN easings \subseteq DOMAIN easings'
             /\ IF call.name # "" /\ call.fn # "notAFunction"
                THEN /\ DOMAIN easings' = DOMAIN easings \cup {call.name}
                     /\ easings'[call.name] = call.fn
                     /\ \A n \in DOMAIN easings \ {call.name} :
                            easings'[n] = easings[n]
                ELSE easings' = easings]_vars

\* C26 witness: the built-in linear was replaced by another function, the
\* name custom is registered, and the last call, made for custom with a
\* non-function, left both as they were.
C26_Witness ==
    /\ easings["linear"] = "double"
    /\ "custom" \in DOMAIN easings
    /\ easings["custom"] = "linear"
    /\ step.addEasing = [name |-> "custom", fn |-> "notAFunction"]

\* C27 (as claimed): every built-in easing function returns 0 at
\* progress 0 and 1 at progress 1.
C27_BuiltinEndpoints ==
    step.evaluated.name # "" =>
        step.evaluated.value = Double(step.evaluated.t)

C29_Interpolation ==
    LET animation == currentAnimation
    IN (/\ step.animated # 0
        /\ animation.id = step.animated
        /\ 0 <= animation.sinceStart
        /\ animation.sinceStart < animation.duration)
          => LET value ==
                     animation.startPosition
                         + Eased(easings[animation.easing],
                                 [num |-> animation.sinceStart,
                                  den |-> animation.duration],
                                 animation.targetPosition
                                     - animation.startPosition)
             IN /\ currentScroll = value
                /\ step.pushed = value

\* C29 witness: the scenario of the claim in the units of the model: a
\* linear animation from 0 to 1000 over 8 ticks, ticked at elapsed 4,
\* applied 500.
C29_Witness ==
    /\ step.animated # 0
    /\ currentAnimation.id = step.animated
    /\ currentAnimation.easing = "linear"
    /\ currentAnimation.startPosition = 0
    /\ currentAnimation.targetPosition = 1000
    /\ currentAnimation.duration = 8
    /\ currentAnimation.sinceStart = 4
    /\ currentScroll = 500
    /\ step.pushed = 500

\* a name whose start succeeded and that was not stopped since names the
\* instance start returned
Held(names) ==
    \A name \in names :
        openScroll.started[name] # 0
           => /\ OpenScroll_getInstance(openScroll, name)
                     = openScroll.started[name]
              /\ OpenScroll_isRunning(openScroll, name)

\* stop of such a name returns true; after any stop of a name the name
\* names nothing
StopRemoves(names) ==
    (openScroll'.call.op = "stop" /\ openScroll'.call.name \in names)
       => LET name == openScroll'.call.name
          IN /\ openScroll.started[name] # 0
                    => openScroll'.call.result = "true"
             /\ OpenScroll_getInstance(openScroll', name) = 0
             /\ ~OpenScroll_isRunning(openScroll', name)

\* C30 (as claimed): after start(N) succeeds for a class given by its
\* global name N, getInstance(N) returns that instance and isRunning(N) is
\* true, stop(N) returns true and removes it, and after stop(N)
\* getInstance(N) is null and isRunning(N) is false.
C30_RegistryRoundTrip ==
    /\ [](Held(Names))
    /\ [][StopRemoves(Names)]_vars

\* the same for the global names that are also the name of their class
NamesThatAgree == {name \in Names : Window(name) = name}

RoundTripWhereNamesAgree ==
    /\ [](Held(NamesThatAgree))
    /\ [][StopRemoves(NamesThatAgree)]_vars

\* start('Parallax') succeeded and then stop('Parallax') returned true
ParallaxRoundTripHappened ==
    /\ openScroll.call.op = "stop" /\ openScroll.call.name = "Parallax"
    /\ openScroll.call.result = "true"
    /\ parallax.destroyed
    /\ openScroll.nextInstance > 3

\* start('SmoothScroller') succeeded and the instance is filed under the
\* name of its class
FiledUnderClassName ==
    /\ openScroll.call.op = "start"
    /\ openScroll.call.name = "SmoothScroller"
    /\ ~openScroll.call.threw
    /\ OpenScroll_getInstance(openScroll, "Smoothscroller")
           = openScroll.call.instance
    /\ ~OpenScroll_isRunning(openScroll, "SmoothScroller")

\* an animation became current in this step
BecameCurrent ==
    currentAnimation'.id # 0 /\ currentAnimation'.id # currentAnimation.id

\* ... taken from the backlog after the animation before it completed
Promoted ==
    /\ BecameCurrent
    /\ step'.completed.id # 0
    /\ \E i \in DOMAIN animations :
           animations[i].id = currentAnimation'.id

\* its startTime is the clock and its startPosition the page position
Stamped ==
    BecameCurrent
       => /\ currentAnimation'.sinceStart = 0
          /\ currentAnimation'.startPosition = scrollY'

\* C31 (as claimed): an animation that becomes current has its startTime
\* set to the clock and its startPosition to the scroll value of that
\* moment, and a backlog animation promoted after its predecessor completed
\* starts from the predecessor's targetPosition.
C31_StartStamping ==
    [][/\ Stamped
       /\ Promoted => currentAnimation'.startPosition
                          = step'.completed.targetPosition]_vars

\* C31 (amended): the same, the promoted animation starting from the place
\* the page took for the predecessor's targetPosition, which is that
\* position held within the scrollable extent of the page.
C31_StartStampingOnPage ==
    [][/\ Stamped
       /\ Promoted => currentAnimation'.startPosition
                          = ClampToPage(step'.completed.targetPosition)]_vars

\* C31 witness: an animation whose target lies beyond the end of the page
\* completed and the next one of the backlog started at the end of the
\* page.
C31_Witness ==
    /\ step.completed.id # 0
    /\ step.completed.targetPosition > MaxScrollY
    /\ currentAnimation.id > step.completed.id
    /\ Happened("start", currentAnimation.id)
    /\ ~Happened("reenter", currentAnimation.id)
    /\ currentAnimation.sinceStart = 0
    /\ currentAnimation.startPosition = MaxScrollY

\* the smoothing branch ran its movement assignment on a frame that came
\* no later than the operation before it
MovedWithoutTime ==
    /\ step'.smoothed
    /\ step'.elapsed <= 0
    /\ Abs(targetScroll - currentScroll) >= config.minMovement

\* C32 (as claimed): in the smoothing regime with |target - current| >=
\* minMovement, a frame whose elapsed time is zero or negative leaves
\* currentScroll unchanged: the delta is never a negative multiplier.
C32_NoMovementWithoutTime ==
    [][MovedWithoutTime => currentScroll' = currentScroll]_vars

\* the same for the configurations whose maxDeltaTime is not negative
NoMovementWithoutTimeUnderCap ==
    [][(MovedWithoutTime /\ config.maxDeltaTime >= 0)
          => currentScroll' = currentScroll]_vars

\* a frame without elapsed time ran the movement assignment at a distance
\* from the target under the default configuration
FrameWithoutTimeHappened ==
    /\ step.smoothed /\ ~step.snapped /\ step.elapsed = 0
    /\ config.maxDeltaTime = DefaultMaxDeltaTime
    /\ targetScroll = 1000 /\ currentScroll = 0

Kept(id) ==
    \/ currentAnimation.id = id
    \/ \E i \in DOMAIN animations : animations[i].id = id
    \/ Happened("complete", id)

\* C34 (as claimed): as long as no immediate override occurs, no accepted
\* animation is dropped, the one an onComplete callback requests with a
\* non-immediate scrollTo while the backlog is non-empty included: each is
\* current, waiting, or has completed.
C34_NoLostAnimation ==
    NoneOf("discard") => \A id \in Ids : Kept(id)

\* the same for the animations requested while the backlog was empty or
\* from outside a callback
NoLostOutsideCallbacks ==
    NoneOf("discard") =>
        \A id \in Ids :
            (~Happened("reenter", id)
                \/ \E i \in DOMAIN events :
                       /\ events[i] = <<"reenter", id>>
                       /\ i = Len(events) \/ events[i + 1][1] # "start")
               => Kept(id)

\* an onComplete callback requested an animation while another waited, and
\* the waiting one became current in its place
ReentrantRequestOverwritten ==
    \E id \in Ids :
        /\ Happened("reenter", id)
        /\ Happened("start", id)
        /\ ~Kept(id)
        /\ currentAnimation.id # 0

\* C35 (as claimed): whenever isRunning is true between operations a
\* frame callback is pending, so start() after stop() always resumes the
\* loop, also when stop() was called from inside an onComplete callback
\* during a frame and frames elapsed before start().
C35_RunningLoopHasFrame ==
    isRunning => rafPending > 0

\* start() set a stopped instance running and no frame callback is
\* pending: the frame in which onComplete called stop() requested another
\* frame after the callback returned, that frame came and returned at
\* once, and its identifier is still in animationFrameId
ResumedWithoutFrame ==
    /\ step.resumed
    /\ isRunning
    /\ rafPending = 0
    /\ animationFrameId = "stale"

\* the promise of animation id was resolved: resolve(true) is the last
\* statement of the onComplete wrapper
Resolved(id) == Happened("complete", id)

\* a promise is resolved once at most, in the step that completes its
\* animation and after the caller's onComplete; the promise of an
\* animation an override discarded is never resolved
PromiseSafety ==
    /\ \A id \in Ids : Count("complete", id) <= 1
    /\ \A id \in Ids : Happened("discard", id) => ~Resolved(id)
    /\ step.resolved = "true" <=> step.completed.id # 0
    /\ step.completed.id # 0 =>
          /\ events # <<>>
          /\ Resolved(step.completed.id)
          /\ step.emitted # <<>> /\ step.emitted[1] = "onComplete"

\* every promise handed out so far is resolved or belongs to a discarded
\* animation
AllSettled ==
    \A id \in Ids : Resolved(id) \/ Happened("discard", id)

\* C36 (as claimed): the promise scrollTo returns for an accepted
\* animation resolves with true exactly when the animation completes, once
\* at most; while the loop keeps running every promise whose animation no
\* immediate override discards is eventually resolved (the page makes
\* finitely many requests, so from some moment on all are settled); the
\* promise of a discarded animation never settles.
C36_PromiseSettlement ==
    /\ []PromiseSafety
    /\ <>[]AllSettled

\* no animation in flight or waiting has a negative duration
DurationsNotNegative ==
    /\ currentAnimation.duration >= 0
    /\ \A i \in DOMAIN animations : animations[i].duration >= 0

\* the same where every animation has a duration that is not negative
PromiseSettlementOfProperAnimations ==
    /\ []PromiseSafety
    /\ []DurationsNotNegative => <>[]AllSettled

\* the promise of an animation with a negative duration is pending while
\* the loop runs, a frame is requested and the animation has been current
\* for longer than any duration
PromiseStillPending ==
    /\ isRunning /\ rafPending > 0
    /\ currentAnimation.id # 0
    /\ currentAnimation.duration < 0
    /\ currentAnimation.sinceStart = ClockCap
    /\ ~Resolved(currentAnimation.id)

\* ------------------------------------------------------------------ C37
\* the channel is IDLE: no animation is current and none waits
Idle == ~isAnimating /\ currentAnimation.id = 0 /\ animations = <<>>

\* the operation just done completed an animation and left the channel IDLE
HandedBack == step.completed.id # 0 /\ Idle

\* the values the completion leaves behind
HandBackValues ==
    HandedBack =>
        /\ currentScroll = step.completed.targetPosition
        /\ targetScroll = step.completed.targetPosition

\* a step that starts and ends IDLE after some animation has completed:
\* no scrollTo was accepted in it
QuietStep ==
    /\ Idle /\ Idle'
    /\ \E id \in Ids : Happened("complete", id)

PulledBackAfterHandBack ==
    /\ Idle
    /\ step.smoothed
    /\ targetScroll = MaxScrollY
    /\ currentScroll = MaxScrollY

\* ------------------------------------------------------------------ C38
\* C38: after any sequence of intersection notifications, addElement,
\* removeElement, updateOptions (a changed selector or
\* useIntersectionObserver included) and destroy, every element of
\* visibleElements is a key of the elements map
C38_VisibleWithinTracked ==
    parallax.visibleElements \subseteq parallax.elements

\* the same while the selector matches every element the observer observes
VisibleWithinTrackedUnderSelector ==
    parallax.observed \subseteq QuerySelectorAll(parallax.options.selector)
        => parallax.visibleElements \subseteq parallax.elements

\* an element the observer reported visible is no longer tracked after the
\* selector changed, and is still in visibleElements and still observed
VisibleButUntracked ==
    /\ parallax.options.selector = ".hero"
    /\ parallax.elements = {1}
    /\ 2 \in parallax.visibleElements
    /\ 2 \in parallax.observed

\* ------------------------------------------------------------------ C39
\* C39: after every frame of the Parallax instance, for every tracked item
\* that was visible in the frame, lastTransform differs from the transform
\* computed from the sampled scroll offsets by at most 0.1 on each axis
C39_BoundedStaleness ==
    (parallax.pass.animated /\ ~parallax.pass.threw) =>
        \A el \in Tracked :
            Parallax_isElementVisible(parallax, el) =>
                ~FartherThan(
                     parallax.items[el].lastTransform,
                     Parallax_calculateTransform(parallax, parallax.items[el]),
                     Epsilon)

\* C39 witness: a frame has just run that left a visible item, written by
\* an earlier frame, at a transform that is not the computed one, while
\* another visible item is at its computed transform
C39_Witness ==
    /\ parallax.pass.animated
    /\ \E el \in Tracked \cap parallax.visibleElements :
          /\ parallax.items[el].lastTransform
                 # parallax.items[el].initialTransform
          /\ parallax.items[el].lastTransform # ZeroTransform
          /\ parallax.items[el].lastTransform
                 # Parallax_calculateTransform(parallax, parallax.items[el])
    /\ \E el \in Tracked \cap parallax.visibleElements :
          parallax.items[el].lastTransform
              = Parallax_calculateTransform(parallax, parallax.items[el])

\* ------------------------------------------------------------------ C40
\* the offsets of the page
PageOffsets == [x |-> parallax.pageXOffset, y |-> scrollY]

\* the offsets the transform evaluator reads
SampledOffsets == [x |-> parallax.currentScrollX, y |-> parallax.currentScrollY]

\* from some point on the page does not scroll
ScrollingStops == <>[][PageOffsets' = PageOffsets]_vars

\* C40: for a running Parallax instance, once the page has stopped
\* scrolling the sampled offsets currentScrollY and currentScrollX
\* eventually equal the offsets of the page and stay equal, whatever the
\* timing of the scroll events relative to the throttle window
C40_SampleEventuallyCurrent ==
    ScrollingStops
        => <>[](parallax.isRunning => SampledOffsets = PageOffsets)

\* a scroll event that arrives outside the throttle window is sampled
HandledEventSamples ==
    [][(PageOffsets' # PageOffsets /\ ~parallax.inThrottle)
          => SampledOffsets' = PageOffsets']_vars

\* a scroll event was dropped: the throttle window has closed, the idle
\* timer has expired, nothing is pending but frames, and the sample is
\* not the offset of the page
StaleSample ==
    /\ parallax.isRunning
    /\ ~parallax.inThrottle
    /\ ~parallax.isScrolling
    /\ parallax.timers = {}
    /\ SampledOffsets # PageOffsets

====
